---- MODULE Spec2Model ----
(***************************************************************************)
(* Model of the derivation and query layer of `below`: the cgroup tree     *)
(* builder (model/src/cgroup.rs), the process models                       *)
(* (model/src/process.rs), the top-level Model, Field, the query of a Vec, *)
(* VecFieldId and sort_queriables (model/src/lib.rs).                      *)
(*                                                                         *)
(* Specifications                                                          *)
(*   Spec        : Model::new and CgroupModel::new over cgroup samples.    *)
(*   ProcessSpec : Model::new over process samples.                        *)
(*   OptAddSpec  : CgroupIoModel + &CgroupIoModel.                         *)
(*   QuerySpec   : query of a Vec<CgroupModel>.                            *)
(*   ParseSpec   : VecFieldId to_string and from_str.                      *)
(*   FieldSpec   : Field ==, partial_cmp and +.                            *)
(*   SortSpec    : sort_queriables.                                        *)
(*   CoreSpec    : the filter and sort calls of the core view's CoreState  *)
(*                 (view/src/core_view.rs).                                *)
(*                                                                         *)
(* Representation                                                          *)
(*   Option<T>  : the empty sequence is None, <<x>> is Some(x).            *)
(*   f64        : an exact fraction [n |-> numerator, d |-> denominator],  *)
(*                reduced, d >= 0.  d = 0 holds the IEEE specials:         *)
(*                n = 1 is +inf, n = -1 is -inf, n = 0 is NaN.  Rounding   *)
(*                of finite values is not modelled.                        *)
(*   Duration   : a number of microseconds.                                *)
(*   BTreeMap   : a function whose DOMAIN is the key set.                  *)
(*   BTreeSet<CgroupModel> : a function from the child name (the key the   *)
(*                Ord/Eq implementations compare) to the child model.      *)
(*   Vec<T>     : a sequence; element idx of the Vec is at idx + 1.        *)
(*   Field      : a record with one field, named after the variant.        *)
(*   String     : a TLA+ string; a text that is parsed is a sequence of    *)
(*                symbols.                                                 *)
(***************************************************************************)
EXTENDS Integers, Sequences, FiniteSets, TLC

VARIABLES
    sample,   \* the current Sample handed to the builders
    last,     \* Option<(previous Sample, elapsed Duration)>
    node,     \* Option<CgroupModel>: the result of a call of CgroupModel::new
    model,    \* Option<Model>: the result of a call of Model::new
    args,     \* Option<arguments>: what a call of a query-layer function is given
    result,   \* Option<value>: what that call returned
    state,    \* the CoreState of the core view, None where no view is built
    caller_reverse  \* the caller's `reverse`, handed to the sort calls by &mut

vars == <<sample, last, node, model, args, result, state, caller_reverse>>

-----------------------------------------------------------------------------
(* Option *)

None == <<>>

Some(x) == <<x>>

IsSome(o) == o # <<>>

IsNone(o) == o = <<>>

Unwrap(o) == o[1]

\* Option<&BTreeMap>::unwrap_or(&empty)
UnwrapOrEmpty(o) == IF IsSome(o) THEN Unwrap(o) ELSE <<>>

\* the view variables of a run that builds no core view
NoView == state = None /\ caller_reverse = None

-----------------------------------------------------------------------------
(* f64 *)

Abs(i) == IF i < 0 THEN -i ELSE i

Sign(i) == IF i > 0 THEN 1 ELSE IF i < 0 THEN -1 ELSE 0

RECURSIVE Gcd(_, _)
Gcd(a, b) == IF b = 0 THEN a ELSE Gcd(b, a % b)

\* the fraction n/d with d >= 0, reduced; d = 0 gives +inf, -inf or NaN
Frac(n, d) ==
    IF d = 0 THEN [n |-> Sign(n), d |-> 0]
    ELSE LET g == Gcd(Abs(n), d) IN [n |-> n \div g, d |-> d \div g]

\* an integer `as f64`
F64(i) == [n |-> i, d |-> 1]

NaN == [n |-> 0, d |-> 0]

IsFinite(x) == x.d # 0

F64Add(x, y) ==
    IF IsFinite(x) /\ IsFinite(y) THEN Frac(x.n * y.d + y.n * x.d, x.d * y.d)
    ELSE IF IsFinite(y) THEN x
    ELSE IF IsFinite(x) THEN y
    ELSE IF x = y THEN x ELSE NaN

\* x * y for finite x, y; the factors are cancelled crosswise first
F64Mul(x, y) ==
    IF ~IsFinite(x) \/ ~IsFinite(y)
    THEN (IF x = NaN \/ y = NaN \/ x.n = 0 \/ y.n = 0 THEN NaN
          ELSE [n |-> Sign(x.n) * Sign(y.n), d |-> 0])
    ELSE LET g1 == Gcd(Abs(x.n), y.d)
             g2 == Gcd(Abs(y.n), x.d)
         IN  Frac((x.n \div g1) * (y.n \div g2), (x.d \div g2) * (y.d \div g1))

\* x / y for finite x and finite y >= 0 (durations are never negative)
F64Div(x, y) ==
    IF y.n = 0 THEN [n |-> Sign(x.n), d |-> 0]
    ELSE F64Mul(x, [n |-> y.d, d |-> y.n])

\* f64 `as u64`: NaN and negative values give 0, the fraction is dropped.
\* +inf saturates to u64::MAX, which the inputs below never produce.
F64AsU64(x) ==
    CASE IsFinite(x) /\ x.n >= 0 -> x.n \div x.d
      [] IsFinite(x) /\ x.n < 0 -> 0
      [] ~IsFinite(x) /\ x.n <= 0 -> 0

\* an integer sample value `as u64`; sampled kernel values are not negative
AsU64(v) == v

\* Option<i64>::map(|v| v as u64)
OptAsU64(o) == IF IsSome(o) THEN Some(AsU64(Unwrap(o))) ELSE None

-----------------------------------------------------------------------------
(* Duration *)

\* Duration::as_micros() as f64
AsMicrosF64(delta) == F64(delta)

\* Duration::as_secs_f64()
AsSecsF64(delta) == Frac(delta, 1000000)

-----------------------------------------------------------------------------
(* Rate/Delta engine (collector): opt_add, usec_pct!, count_per_sec! *)

\* opt_add::<f64>
opt_add(a, b) ==
    CASE IsSome(a) /\ IsSome(b) -> Some(F64Add(Unwrap(a), Unwrap(b)))
      [] IsSome(a) /\ IsNone(b) -> a
      [] IsNone(a) /\ IsSome(b) -> b
      [] IsNone(a) /\ IsNone(b) -> None

\* opt_add::<u64>
opt_add_u64(a, b) ==
    CASE IsSome(a) /\ IsSome(b) -> Some(Unwrap(a) + Unwrap(b))
      [] IsSome(a) /\ IsNone(b) -> a
      [] IsNone(a) /\ IsSome(b) -> b
      [] IsNone(a) /\ IsNone(b) -> None

\* usec_pct!(begin, end, delta): (end - begin) / elapsed micros * 100
usec_pct(a_opt, b_opt, delta) ==
    IF IsSome(a_opt) /\ IsSome(b_opt) /\ delta > 0
    THEN Some(F64Mul(F64Div(F64(Unwrap(b_opt) - Unwrap(a_opt)), AsMicrosF64(delta)),
                     F64(100)))
    ELSE None

\* count_per_sec!(begin, end, delta): (end - begin) / elapsed seconds
count_per_sec(a_opt, b_opt, delta) ==
    IF IsSome(a_opt) /\ IsSome(b_opt)
    THEN Some(F64Div(F64(Unwrap(b_opt) - Unwrap(a_opt)), AsSecsF64(delta)))
    ELSE None

\* count_per_sec!(begin, end, delta, u64): the rate stored in an Option<u64>
count_per_sec_u64(a_opt, b_opt, delta) ==
    LET rate == count_per_sec(a_opt, b_opt, delta)
    IN  IF IsSome(rate) THEN Some(F64AsU64(Unwrap(rate))) ELSE None

-----------------------------------------------------------------------------
(* Iteration order of BTreeMap<String, _> and BTreeSet<CgroupModel> *)

\* every cgroup and device name of the inputs, in String order
KeyOrder == <<"a", "b", "sda", "sdb">>

\* the keys of map m in iteration order
SortedKeys(m) == SelectSeq(KeyOrder, LAMBDA k : k \in DOMAIN m)

-----------------------------------------------------------------------------
(* CgroupCpuModel *)

\* mutant: begin and end exchanged
CgroupCpuModelNewSwapped(begin, end, delta) ==
    [ usage_pct            |-> usec_pct(end.usage_usec, begin.usage_usec, delta),
      user_pct             |-> usec_pct(end.user_usec, begin.user_usec, delta),
      system_pct           |-> usec_pct(end.system_usec, begin.system_usec, delta),
      nr_periods_per_sec   |-> count_per_sec(end.nr_periods, begin.nr_periods, delta),
      nr_throttled_per_sec |-> count_per_sec(end.nr_throttled, begin.nr_throttled, delta),
      throttled_pct        |-> usec_pct(end.throttled_usec, begin.throttled_usec, delta) ]

\* mutant: throttled_pct derived with count_per_sec! in place of usec_pct!
CgroupCpuModelNewThrottledRate(begin, end, delta) ==
    [ usage_pct            |-> usec_pct(begin.usage_usec, end.usage_usec, delta),
      user_pct             |-> usec_pct(begin.user_usec, end.user_usec, delta),
      system_pct           |-> usec_pct(begin.system_usec, end.system_usec, delta),
      nr_periods_per_sec   |-> count_per_sec(begin.nr_periods, end.nr_periods, delta),
      nr_throttled_per_sec |-> count_per_sec(begin.nr_throttled, end.nr_throttled, delta),
      throttled_pct        |-> count_per_sec(begin.throttled_usec, end.throttled_usec, delta) ]

CgroupCpuModelNew(begin, end, delta) ==
    [ usage_pct            |-> usec_pct(begin.usage_usec, end.usage_usec, delta),
      user_pct             |-> usec_pct(begin.user_usec, end.user_usec, delta),
      system_pct           |-> usec_pct(begin.system_usec, end.system_usec, delta),
      nr_periods_per_sec   |-> count_per_sec(begin.nr_periods, end.nr_periods, delta),
      nr_throttled_per_sec |-> count_per_sec(begin.nr_throttled, end.nr_throttled, delta),
      throttled_pct        |-> usec_pct(begin.throttled_usec, end.throttled_usec, delta) ]

-----------------------------------------------------------------------------
(* CgroupIoModel *)

IoFields == {"rbytes_per_sec", "wbytes_per_sec", "rios_per_sec", "wios_per_sec",
             "dbytes_per_sec", "dios_per_sec", "rwbytes_per_sec"}

\* mutant: begin and end exchanged
CgroupIoModelNewSwapped(begin, end, delta) ==
    LET rbytes_per_sec == count_per_sec(end.rbytes, begin.rbytes, delta)
        wbytes_per_sec == count_per_sec(end.wbytes, begin.wbytes, delta)
        rwbytes_per_sec == opt_add(rbytes_per_sec, wbytes_per_sec)
    IN  [ rbytes_per_sec  |-> rbytes_per_sec,
          wbytes_per_sec  |-> wbytes_per_sec,
          rios_per_sec    |-> count_per_sec(end.rios, begin.rios, delta),
          wios_per_sec    |-> count_per_sec(end.wios, begin.wios, delta),
          dbytes_per_sec  |-> count_per_sec(end.dbytes, begin.dbytes, delta),
          dios_per_sec    |-> count_per_sec(end.dios, begin.dios, delta),
          rwbytes_per_sec |-> rwbytes_per_sec ]

CgroupIoModelNew(begin, end, delta) ==
    LET rbytes_per_sec == count_per_sec(begin.rbytes, end.rbytes, delta)
        wbytes_per_sec == count_per_sec(begin.wbytes, end.wbytes, delta)
        rwbytes_per_sec == opt_add(rbytes_per_sec, wbytes_per_sec)
    IN  [ rbytes_per_sec  |-> rbytes_per_sec,
          wbytes_per_sec  |-> wbytes_per_sec,
          rios_per_sec    |-> count_per_sec(begin.rios, end.rios, delta),
          wios_per_sec    |-> count_per_sec(begin.wios, end.wios, delta),
          dbytes_per_sec  |-> count_per_sec(begin.dbytes, end.dbytes, delta),
          dios_per_sec    |-> count_per_sec(begin.dios, end.dios, delta),
          rwbytes_per_sec |-> rwbytes_per_sec ]

\* mutant: the derived Default, every field None
CgroupIoModelDefault == [f \in IoFields |-> None]

CgroupIoModelEmpty ==
    [ rbytes_per_sec  |-> Some(F64(0)),
      wbytes_per_sec  |-> Some(F64(0)),
      rios_per_sec    |-> Some(F64(0)),
      wios_per_sec    |-> Some(F64(0)),
      dbytes_per_sec  |-> Some(F64(0)),
      dios_per_sec    |-> Some(F64(0)),
      rwbytes_per_sec |-> Some(F64(0)) ]

\* mutant: absence counted as zero (unwrap_or_default on both sides)
CgroupIoModelAddZero(self, other) ==
    [f \in IoFields |->
        Some(F64Add(IF IsSome(self[f]) THEN Unwrap(self[f]) ELSE F64(0),
                    IF IsSome(other[f]) THEN Unwrap(other[f]) ELSE F64(0)))]

\* impl Add<&CgroupIoModel> for CgroupIoModel
CgroupIoModelAdd(self, other) ==
    [ rbytes_per_sec  |-> opt_add(self.rbytes_per_sec, other.rbytes_per_sec),
      wbytes_per_sec  |-> opt_add(self.wbytes_per_sec, other.wbytes_per_sec),
      rios_per_sec    |-> opt_add(self.rios_per_sec, other.rios_per_sec),
      wios_per_sec    |-> opt_add(self.wios_per_sec, other.wios_per_sec),
      dbytes_per_sec  |-> opt_add(self.dbytes_per_sec, other.dbytes_per_sec),
      dios_per_sec    |-> opt_add(self.dios_per_sec, other.dios_per_sec),
      rwbytes_per_sec |-> opt_add(self.rwbytes_per_sec, other.rwbytes_per_sec) ]

-----------------------------------------------------------------------------
(* CgroupMemoryModel: a record over MemoryFields, every field an Option *)

\* fields copied from memory.stat of the current sample
MemoryGaugeFields ==
    {"anon", "file", "kernel_stack", "slab", "sock", "shmem", "file_mapped",
     "file_dirty", "file_writeback", "anon_thp", "inactive_anon", "active_anon",
     "inactive_file", "active_file", "unevictable", "slab_reclaimable",
     "slab_unreclaimable"}

\* fields derived from memory.stat of both samples
MemoryRateFields ==
    {"pgfault", "pgmajfault", "workingset_refault", "workingset_activate",
     "workingset_nodereclaim", "pgrefill", "pgscan", "pgsteal", "pgactivate",
     "pgdeactivate", "pglazyfree", "pglazyfreed", "thp_fault_alloc",
     "thp_collapse_alloc"}

\* model field -> field of memory.events
MemoryEventOf ==
    [ events_low |-> "low", events_high |-> "high", events_max |-> "max",
      events_oom |-> "oom", events_oom_kill |-> "oom_kill" ]

MemoryFields ==
    {"total", "swap", "memory_high"} \cup MemoryGaugeFields \cup MemoryRateFields
        \cup DOMAIN MemoryEventOf

\* CgroupMemoryModel::default()
CgroupMemoryModelDefault == [f \in MemoryFields |-> None]

\* impl Add for CgroupMemoryModel
CgroupMemoryModelAdd(self, other) ==
    [f \in MemoryFields |->
        IF f = "memory_high" THEN None ELSE opt_add_u64(self[f], other[f])]

\* opt_add::<CgroupMemoryModel>
opt_add_memory(a, b) ==
    CASE IsSome(a) /\ IsSome(b) -> Some(CgroupMemoryModelAdd(Unwrap(a), Unwrap(b)))
      [] IsSome(a) /\ IsNone(b) -> a
      [] IsNone(a) /\ IsSome(b) -> b
      [] IsNone(a) /\ IsNone(b) -> None

CgroupMemoryModelNew(smpl, lst) ==
    LET init ==
            [f \in MemoryFields |->
                CASE f = "total" -> OptAsU64(smpl.memory_current)
                  [] f = "swap" -> OptAsU64(smpl.memory_swap_current)
                  [] f = "memory_high" -> smpl.memory_high
                  [] OTHER -> CgroupMemoryModelDefault[f]]
        with_events ==
            IF IsSome(smpl.memory_events)
            THEN LET events == Unwrap(smpl.memory_events)
                 IN  [f \in MemoryFields |->
                        IF f \in DOMAIN MemoryEventOf
                        THEN OptAsU64(events[MemoryEventOf[f]])
                        ELSE init[f]]
            ELSE init
        with_stat ==
            IF IsSome(smpl.memory_stat)
            THEN LET stat == Unwrap(smpl.memory_stat)
                     has_last_stat == IsSome(lst) /\ IsSome(Unwrap(lst)[1].memory_stat)
                 IN  [f \in MemoryFields |->
                        IF f \in MemoryGaugeFields THEN OptAsU64(stat[f])
                        ELSE IF f \in MemoryRateFields /\ has_last_stat
                        THEN count_per_sec_u64(Unwrap(Unwrap(lst)[1].memory_stat)[f],
                                               stat[f], Unwrap(lst)[2])
                        ELSE with_events[f]]
            ELSE with_events
    IN  with_stat

-----------------------------------------------------------------------------
(* CgroupPressureModel *)

CgroupPressureModelNew(pressure) ==
    [ cpu_some_pct    |-> pressure.cpu.some.avg10,
      io_some_pct     |-> pressure.io.some.avg10,
      io_full_pct     |-> pressure.io.full.avg10,
      memory_some_pct |-> pressure.memory.some.avg10,
      memory_full_pct |-> pressure.memory.full.avg10 ]

-----------------------------------------------------------------------------
(* CgroupModel *)

\* mutant: an inode number on one side only counts as a match
LastIfInodeMatchesLenient(smpl, lst) ==
    IF IsNone(lst) THEN None
    ELSE LET prev == Unwrap(lst)[1].inode_number
             cur == smpl.inode_number
         IN  IF IsSome(prev) /\ IsSome(cur) /\ Unwrap(prev) # Unwrap(cur)
             THEN None ELSE lst

\* `last` when the inode numbers of both samples match or are both absent
LastIfInodeMatches(smpl, lst) ==
    IF IsNone(lst) THEN None
    ELSE LET prev == Unwrap(lst)[1].inode_number
             cur == smpl.inode_number
         IN  CASE IsSome(prev) /\ IsSome(cur) /\ Unwrap(prev) = Unwrap(cur) -> lst
               [] IsNone(prev) /\ IsNone(cur) -> lst
               [] OTHER -> None

\* the per-device models of the devices present in both io_stat maps
CgroupIoMap(begin, end, delta) ==
    [device_name \in DOMAIN end \cap DOMAIN begin |->
        CgroupIoModelNew(begin[device_name], end[device_name], delta)]

\* mutant: the children are built without their previous samples
ChildLastDropped(lst, child_name) == None

\* the same-named child of the previous sample, with the same delta
ChildLast(lst, child_name) ==
    IF IsNone(lst) THEN None
    ELSE LET last_children == UnwrapOrEmpty(Unwrap(lst)[1].children)
         IN  IF child_name \in DOMAIN last_children
             THEN Some(<<last_children[child_name], Unwrap(lst)[2]>>)
             ELSE None

\* io_map.iter().fold(CgroupIoModel::empty(), |acc, (_, model)| acc + model)
IoTotal(io_map) ==
    LET keys == SortedKeys(io_map)
        acc[i \in 0..Len(keys)] ==
            IF i = 0 THEN CgroupIoModelEmpty
            ELSE CgroupIoModelAdd(acc[i - 1], io_map[keys[i]])
    IN  acc[Len(keys)]

\* mutant: recreate_flag set whenever the previous sample is not used
CumulativeModelsFlagged(smpl, lst) ==
    LET last_if_inode_matches == LastIfInodeMatches(smpl, lst) IN
    IF IsSome(last_if_inode_matches)
    THEN LET prev == Unwrap(last_if_inode_matches)[1]
             delta == Unwrap(last_if_inode_matches)[2]
             cpu == IF IsSome(prev.cpu_stat) /\ IsSome(smpl.cpu_stat)
                    THEN Some(CgroupCpuModelNew(Unwrap(prev.cpu_stat),
                                                Unwrap(smpl.cpu_stat), delta))
                    ELSE None
             io == IF IsSome(prev.io_stat) /\ IsSome(smpl.io_stat)
                   THEN Some(CgroupIoMap(Unwrap(prev.io_stat), Unwrap(smpl.io_stat), delta))
                   ELSE None
             io_total == IF IsSome(io)
                         THEN Some(IoTotal(Unwrap(io)))
                         ELSE None
         IN  <<cpu, io, io_total, FALSE>>
    ELSE <<None, None, None, TRUE>>

\* the (cpu, io, io_total, recreate_flag) tuple of CgroupModel::new
CumulativeModels(smpl, lst) ==
    LET last_if_inode_matches == LastIfInodeMatches(smpl, lst) IN
    IF IsSome(last_if_inode_matches)
    THEN LET prev == Unwrap(last_if_inode_matches)[1]
             delta == Unwrap(last_if_inode_matches)[2]
             cpu == IF IsSome(prev.cpu_stat) /\ IsSome(smpl.cpu_stat)
                    THEN Some(CgroupCpuModelNew(Unwrap(prev.cpu_stat),
                                                Unwrap(smpl.cpu_stat), delta))
                    ELSE None
             io == IF IsSome(prev.io_stat) /\ IsSome(smpl.io_stat)
                   THEN Some(CgroupIoMap(Unwrap(prev.io_stat), Unwrap(smpl.io_stat), delta))
                   ELSE None
             io_total == IF IsSome(io)
                         THEN Some(IoTotal(Unwrap(io)))
                         ELSE None
         IN  <<cpu, io, io_total, FALSE>>
    ELSE <<None, None, None, IsSome(lst)>>

\* mutant: memory built against the inode-checked previous sample, like cpu and io
MemoryOfMatched(smpl, lst) ==
    Some(CgroupMemoryModelNew(smpl, LastIfInodeMatches(smpl, lst)))

\* the memory field of CgroupModel::new
MemoryOf(smpl, lst) == Some(CgroupMemoryModelNew(smpl, lst))

\* the pressure field of CgroupModel::new
PressureOf(smpl) ==
    IF IsSome(smpl.pressure) THEN Some(CgroupPressureModelNew(Unwrap(smpl.pressure)))
    ELSE None

\* children.iter().fold(0, |acc, c| acc + c.count)
NrDescendants(children) ==
    LET keys == SortedKeys(children)
        acc[i \in 0..Len(keys)] ==
            IF i = 0 THEN 0 ELSE acc[i - 1] + children[keys[i]].count
    IN  acc[Len(keys)]

\* mutant: the node itself is not counted
NodeCountNoSelf(children) == NrDescendants(children)

\* the count field of CgroupModel::new: the children's counts and the node
NodeCount(children) == NrDescendants(children) + 1

\* mutant: the children of a recreated node are built without previous samples
RECURSIVE CgroupModelNewInherited(_, _, _, _, _)
CgroupModelNewInherited(name, full_path, depth, smpl, lst) ==
    LET cumulative == CumulativeModels(smpl, lst)
        memory == MemoryOf(smpl, lst)
        pressure == PressureOf(smpl)
        sample_children == UnwrapOrEmpty(smpl.children)
        children ==
            [child_name \in DOMAIN sample_children |->
                CgroupModelNewInherited(child_name, full_path \o "/" \o child_name,
                                        depth + 1, sample_children[child_name],
                                        ChildLast(LastIfInodeMatches(smpl, lst),
                                                  child_name))]
    IN  [ name          |-> name,
          full_path     |-> full_path,
          inode_number  |-> OptAsU64(smpl.inode_number),
          cpu           |-> cumulative[1],
          memory        |-> memory,
          io            |-> cumulative[2],
          io_total      |-> cumulative[3],
          pressure      |-> pressure,
          children      |-> children,
          count         |-> NodeCount(children),
          depth         |-> depth,
          recreate_flag |-> cumulative[4] ]

RECURSIVE CgroupModelNew(_, _, _, _, _)
CgroupModelNew(name, full_path, depth, smpl, lst) ==
    LET cumulative == CumulativeModels(smpl, lst)
        memory == MemoryOf(smpl, lst)
        pressure == PressureOf(smpl)
        sample_children == UnwrapOrEmpty(smpl.children)
        children ==
            [child_name \in DOMAIN sample_children |->
                CgroupModelNew(child_name, full_path \o "/" \o child_name, depth + 1,
                               sample_children[child_name], ChildLast(lst, child_name))]
    IN  [ name          |-> name,
          full_path     |-> full_path,
          inode_number  |-> OptAsU64(smpl.inode_number),
          cpu           |-> cumulative[1],
          memory        |-> memory,
          io            |-> cumulative[2],
          io_total      |-> cumulative[3],
          pressure      |-> pressure,
          children      |-> children,
          count         |-> NodeCount(children),
          depth         |-> depth,
          recreate_flag |-> cumulative[4] ]

\* children.iter().fold(init, |acc, model| opt_add(acc, model.memory.clone()))
SumChildrenMemory(children, init) ==
    LET keys == SortedKeys(children)
        acc[i \in 0..Len(keys)] ==
            IF i = 0 THEN init ELSE opt_add_memory(acc[i - 1], children[keys[i]].memory)
    IN  acc[Len(keys)]

\* mutant: the children's memory is added to what the node itself reported
aggr_top_level_val_keep_own(self) ==
    [self EXCEPT !.memory = SumChildrenMemory(self.children, self.memory)]

\* mutant: cpu and pressure are replaced too, by those of the first child
aggr_top_level_val_all(self) ==
    LET keys == SortedKeys(self.children) IN
    [self EXCEPT
        !.memory = SumChildrenMemory(self.children, None),
        !.cpu = IF keys = <<>> THEN None ELSE self.children[keys[1]].cpu,
        !.pressure = IF keys = <<>> THEN None ELSE self.children[keys[1]].pressure]

\* CgroupModel::aggr_top_level_val
aggr_top_level_val(self) ==
    [self EXCEPT !.memory = SumChildrenMemory(self.children, None)]

-----------------------------------------------------------------------------
(* ProcessModel (model/src/process.rs) *)

\* Option<f64>::unwrap_or_default()
UnwrapOrDefaultF64(o) == IF IsSome(o) THEN Unwrap(o) ELSE F64(0)

\* ProcessIoModel::new
ProcessIoModelNew(begin, end, delta) ==
    LET rbytes_per_sec == count_per_sec(begin.rbytes, end.rbytes, delta)
        wbytes_per_sec == count_per_sec(begin.wbytes, end.wbytes, delta)
        rwbytes_per_sec ==
            Some(F64Add(UnwrapOrDefaultF64(rbytes_per_sec),
                        UnwrapOrDefaultF64(wbytes_per_sec)))
    IN  [ rbytes_per_sec  |-> rbytes_per_sec,
          wbytes_per_sec  |-> wbytes_per_sec,
          rwbytes_per_sec |-> rwbytes_per_sec ]

\* ProcessCpuModel::new
ProcessCpuModelNew(begin, end, delta) ==
    LET user_pct == usec_pct(begin.user_usecs, end.user_usecs, delta)
        system_pct == usec_pct(begin.system_usecs, end.system_usecs, delta)
        usage_pct == opt_add(user_pct, system_pct)
    IN  [ usage_pct   |-> usage_pct,
          user_pct    |-> user_pct,
          system_pct  |-> system_pct,
          num_threads |-> OptAsU64(end.num_threads) ]

\* ProcessMemoryModel::new
ProcessMemoryModelNew(begin, end, delta) ==
    [ minorfaults_per_sec |-> count_per_sec(begin.stat.minflt, end.stat.minflt, delta),
      majorfaults_per_sec |-> count_per_sec(begin.stat.majflt, end.stat.majflt, delta),
      rss_bytes |-> OptAsU64(end.stat.rss_bytes),
      vm_size   |-> OptAsU64(end.mem.vm_size),
      lock      |-> OptAsU64(end.mem.lock),
      pin       |-> OptAsU64(end.mem.pin),
      anon      |-> OptAsU64(end.mem.anon),
      file      |-> OptAsU64(end.mem.file),
      shmem     |-> OptAsU64(end.mem.shmem),
      pte       |-> OptAsU64(end.mem.pte),
      swap      |-> OptAsU64(end.mem.swap),
      huge_tlb  |-> OptAsU64(end.mem.huge_tlb) ]

\* Vec<String>::join(" ")
RECURSIVE Join(_)
Join(cmd_vec) ==
    IF cmd_vec = <<>> THEN ""
    ELSE IF Len(cmd_vec) = 1 THEN cmd_vec[1]
    ELSE cmd_vec[1] \o " " \o Join(Tail(cmd_vec))

\* mutant: the sub-models built against the sample itself when there is no last
SingleProcessModelNewAlways(smpl, lst) ==
    LET l == IF IsSome(lst) THEN Unwrap(lst)[1] ELSE smpl
        d == IF IsSome(lst) THEN Unwrap(lst)[2] ELSE 0
    IN  [ pid         |-> smpl.stat.pid,
          ppid        |-> smpl.stat.ppid,
          comm        |-> smpl.stat.comm,
          state       |-> smpl.stat.state,
          uptime_secs |-> OptAsU64(smpl.stat.running_secs),
          cgroup      |-> Some(smpl.cgroup),
          io          |-> Some(ProcessIoModelNew(l.io, smpl.io, d)),
          mem         |-> Some(ProcessMemoryModelNew(l, smpl, d)),
          cpu         |-> Some(ProcessCpuModelNew(l.stat, smpl.stat, d)),
          cmdline     |-> IF IsSome(smpl.cmdline_vec)
                          THEN Some(Join(Unwrap(smpl.cmdline_vec)))
                          ELSE Some("?"),
          exe_path    |-> smpl.exe_path ]

\* SingleProcessModel::new; lst is Option<(&PidInfo, Duration)>
SingleProcessModelNew(smpl, lst) ==
    [ pid         |-> smpl.stat.pid,
      ppid        |-> smpl.stat.ppid,
      comm        |-> smpl.stat.comm,
      state       |-> smpl.stat.state,
      uptime_secs |-> OptAsU64(smpl.stat.running_secs),
      cgroup      |-> Some(smpl.cgroup),
      io          |-> IF IsSome(lst)
                      THEN Some(ProcessIoModelNew(Unwrap(lst)[1].io, smpl.io,
                                                  Unwrap(lst)[2]))
                      ELSE None,
      mem         |-> IF IsSome(lst)
                      THEN Some(ProcessMemoryModelNew(Unwrap(lst)[1], smpl,
                                                      Unwrap(lst)[2]))
                      ELSE None,
      cpu         |-> IF IsSome(lst)
                      THEN Some(ProcessCpuModelNew(Unwrap(lst)[1].stat, smpl.stat,
                                                   Unwrap(lst)[2]))
                      ELSE None,
      cmdline     |-> IF IsSome(smpl.cmdline_vec)
                      THEN Some(Join(Unwrap(smpl.cmdline_vec)))
                      ELSE Some("?"),
      exe_path    |-> smpl.exe_path ]

\* last.and_then(|(p, d)| p.get(pid).map(|p| (p, d)))
PidLast(lst, pid) ==
    IF IsSome(lst) /\ pid \in DOMAIN Unwrap(lst)[1]
    THEN Some(<<Unwrap(lst)[1][pid], Unwrap(lst)[2]>>)
    ELSE None

\* ProcessModel::new; smpl is the PidMap, lst is Option<(&PidMap, Duration)>
ProcessModelNew(smpl, lst) ==
    [ processes |->
        [pid \in DOMAIN smpl |-> SingleProcessModelNew(smpl[pid], PidLast(lst, pid))] ]

-----------------------------------------------------------------------------
(* Model *)

\* Model::new, the fields derived from the cgroup and process samples
ModelNew(smpl, lst) ==
    [ time_elapsed |-> IF IsSome(lst) THEN Unwrap(lst)[2] ELSE 0,
      cgroup |->
        aggr_top_level_val(
            CgroupModelNew("<root>", "", 0, smpl.cgroup,
                           IF IsSome(lst)
                           THEN Some(<<Unwrap(lst)[1].cgroup, Unwrap(lst)[2]>>)
                           ELSE None)),
      process |->
        ProcessModelNew(smpl.processes,
                        IF IsSome(lst)
                        THEN Some(<<Unwrap(lst)[1].processes, Unwrap(lst)[2]>>)
                        ELSE None) ]

-----------------------------------------------------------------------------
(* Field (model/src/lib.rs): a record with one field, named after the      *)
(* variant and holding the wrapped value                                   *)

FieldU32(v) == [U32 |-> v]

FieldU64(v) == [U64 |-> v]

FieldI32(v) == [I32 |-> v]

FieldI64(v) == [I64 |-> v]

FieldF64(v) == [F64 |-> v]

FieldStr(v) == [Str |-> v]

FieldPidState(v) == [PidState |-> v]

Variant(field) == CHOOSE v \in DOMAIN field : TRUE

Wrapped(field) == field[Variant(field)]

\* Option<T>::map(Field::from) for the variant of a model field
OptField(variant, o) ==
    IF IsSome(o) THEN Some([v \in {variant} |-> Unwrap(o)]) ELSE None

\* the strings of the inputs, in String order
StrOrder == <<"", "/a", "/b", "a", "ab", "b">>

\* procfs::PidState, in declaration order
PidStates == <<"Running", "Sleeping", "Zombie">>

\* the position of x in the sequence seq
IndexIn(seq, x) == CHOOSE i \in 1..Len(seq) : seq[i] = x

\* Ord::cmp of two integers
IntCmp(s, o) == IF s < o THEN "Less" ELSE IF s > o THEN "Greater" ELSE "Equal"

\* f64 == f64: NaN equals nothing
F64Eq(x, y) == x # NaN /\ y # NaN /\ x = y

\* f64::partial_cmp: None when either side is NaN
F64PartialCmp(x, y) ==
    IF x = NaN \/ y = NaN THEN None
    ELSE IF ~IsFinite(x) /\ ~IsFinite(y) THEN Some(IntCmp(x.n, y.n))
    ELSE Some(IntCmp(x.n * y.d, y.n * x.d))

\* the result of a panic!
Panic == [panic |-> "Operation for unsupported types"]

\* impl PartialEq for Field
FieldEq(self, other) ==
    LET s == Wrapped(self)
        o == Wrapped(other)
    IN  CASE Variant(self) = "U64" /\ Variant(other) = "U64" -> s = o
          [] Variant(self) = "I32" /\ Variant(other) = "I32" -> s = o
          [] Variant(self) = "I64" /\ Variant(other) = "I64" -> s = o
          [] Variant(self) = "F64" /\ Variant(other) = "F64" -> F64Eq(s, o)
          [] Variant(self) = "Str" /\ Variant(other) = "Str" -> s = o
          [] Variant(self) = "PidState" /\ Variant(other) = "PidState" -> s = o
          [] OTHER -> FALSE

\* impl PartialOrd for Field
FieldPartialCmp(self, other) ==
    LET s == Wrapped(self)
        o == Wrapped(other)
    IN  CASE Variant(self) = "U64" /\ Variant(other) = "U64" -> Some(IntCmp(s, o))
          [] Variant(self) = "I32" /\ Variant(other) = "I32" -> Some(IntCmp(s, o))
          [] Variant(self) = "I64" /\ Variant(other) = "I64" -> Some(IntCmp(s, o))
          [] Variant(self) = "F64" /\ Variant(other) = "F64" -> F64PartialCmp(s, o)
          [] Variant(self) = "Str" /\ Variant(other) = "Str" ->
                 Some(IntCmp(IndexIn(StrOrder, s), IndexIn(StrOrder, o)))
          [] Variant(self) = "PidState" /\ Variant(other) = "PidState" ->
                 Some(IntCmp(IndexIn(PidStates, s), IndexIn(PidStates, o)))
          [] OTHER -> None

\* impl Add for Field; the sums of the inputs stay far from the integer limits
FieldAdd(self, other) ==
    LET s == Wrapped(self)
        o == Wrapped(other)
    IN  CASE Variant(self) = "U64" /\ Variant(other) = "U64" -> FieldU64(s + o)
          [] Variant(self) = "I32" /\ Variant(other) = "I32" -> FieldI32(s + o)
          [] Variant(self) = "I64" /\ Variant(other) = "I64" -> FieldI64(s + o)
          [] Variant(self) = "F64" /\ Variant(other) = "F64" -> FieldF64(F64Add(s, o))
          [] Variant(self) = "Str" /\ Variant(other) = "Str" -> FieldStr(s \o o)
          [] OTHER -> Panic

-----------------------------------------------------------------------------
(* Queriable / FieldId.  A FieldId of a model is the sequence of its        *)
(* variant names: <<"name">> is a leaf, <<"cpu", "usage_pct">> a subquery.  *)

CpuFields ==
    {"usage_pct", "user_pct", "system_pct", "nr_periods_per_sec",
     "nr_throttled_per_sec", "throttled_pct"}

PressureFields ==
    {"cpu_some_pct", "io_some_pct", "io_full_pct", "memory_some_pct", "memory_full_pct"}

\* CgroupModelFieldId: the fields not marked queriable(ignore), sub-models
\* under their preferred names
CgroupModelFieldIds ==
    {<<"name">>, <<"full_path">>, <<"inode_number">>}
        \cup {<<"cpu", f>> : f \in CpuFields}
        \cup {<<"mem", f>> : f \in MemoryFields}
        \cup {<<"io", f>> : f \in IoFields}
        \cup {<<"pressure", f>> : f \in PressureFields}

\* the optional sub-model a subquery variant names
CgroupSubModel(self, variant) ==
    CASE variant = "cpu" -> self.cpu
      [] variant = "mem" -> self.memory
      [] variant = "io" -> self.io_total
      [] variant = "pressure" -> self.pressure

\* the Field variant of a leaf of a sub-model
CgroupLeafVariant(variant, leaf) ==
    CASE variant = "mem" /\ leaf = "memory_high" -> "I64"
      [] variant = "mem" /\ leaf # "memory_high" -> "U64"
      [] variant \in {"cpu", "io", "pressure"} -> "F64"

\* <CgroupModel as Queriable>::query
CgroupModelQuery(self, field_id) ==
    IF Len(field_id) = 1
    THEN CASE field_id[1] = "name" -> Some(FieldStr(self.name))
           [] field_id[1] = "full_path" -> Some(FieldStr(self.full_path))
           [] field_id[1] = "inode_number" -> OptField("U64", self.inode_number)
    ELSE LET sub == CgroupSubModel(self, field_id[1])
         IN  IF IsSome(sub)
             THEN OptField(CgroupLeafVariant(field_id[1], field_id[2]),
                           Unwrap(sub)[field_id[2]])
             ELSE None

\* mutant: the index taken from 1, the first element never reached
VecQueryFromOne(self, field_id) ==
    IF field_id.idx >= 1 /\ field_id.idx <= Len(self)
    THEN CgroupModelQuery(self[field_id.idx], field_id.subquery_id)
    ELSE None

\* <Vec<CgroupModel> as Queriable>::query; element idx of the Vec is self[idx + 1]
VecQuery(self, field_id) ==
    IF field_id.idx < Len(self)
    THEN CgroupModelQuery(self[field_id.idx + 1], field_id.subquery_id)
    ELSE None

-----------------------------------------------------------------------------
(* Field paths as text.  A text is a sequence of symbols: a digit, a sign,  *)
(* the dot, or a word, which stands for a run of characters that holds no   *)
(* dot and no digit.                                                        *)

DigitChars == <<"0", "1", "2", "3", "4", "5", "6", "7", "8", "9">>

IsDigit(ch) == \E i \in 1..Len(DigitChars) : DigitChars[i] = ch

\* <usize as Display>::fmt
RECURSIVE UsizeToString(_)
UsizeToString(n) ==
    IF n < 10 THEN <<DigitChars[n + 1]>>
    ELSE UsizeToString(n \div 10) \o <<DigitChars[(n % 10) + 1]>>

\* the number a run of digits denotes
RECURSIVE DigitsValue(_)
DigitsValue(digits) ==
    IF digits = <<>> THEN 0
    ELSE DigitsValue(SubSeq(digits, 1, Len(digits) - 1)) * 10
            + (IndexIn(DigitChars, digits[Len(digits)]) - 1)

\* str::parse::<usize>: an optional "+", then one digit or more
ParseUsize(text) ==
    LET digits == IF text # <<>> /\ text[1] = "+" THEN Tail(text) ELSE text
    IN  IF digits = <<>> THEN [err |-> "cannot parse integer from empty string"]
        ELSE IF \E i \in 1..Len(digits) : ~IsDigit(digits[i])
        THEN [err |-> "invalid digit found in string"]
        ELSE [ok |-> DigitsValue(digits)]

\* str::find('.'): the 0-based position of the first dot
Find(s, ch) ==
    IF \E i \in 1..Len(s) : s[i] = ch
    THEN Some((CHOOSE i \in 1..Len(s) : s[i] = ch /\ \A j \in 1..(i - 1) : s[j] # ch) - 1)
    ELSE None

\* str::rfind('.'): the 0-based position of the last dot
RFind(s, ch) ==
    IF \E i \in 1..Len(s) : s[i] = ch
    THEN Some((CHOOSE i \in 1..Len(s) : s[i] = ch /\ \A j \in (i + 1)..Len(s) : s[j] # ch) - 1)
    ELSE None

\* &s[from..to] with 0-based bounds
Slice(s, from, to) == SubSeq(s, from + 1, to)

\* a range outside the text makes the slicing panic
SliceInRange(s, from, to) == from <= to /\ to <= Len(s)

\* <CgroupModelFieldId as CallToString>::to_string: the variant names, dotted
CgroupModelFieldIdToString(field_id) ==
    IF Len(field_id) = 1 THEN <<field_id[1]>>
    ELSE <<field_id[1], ".", field_id[2]>>

\* <CgroupModelFieldId as CallFromStr>::from_str
CgroupModelFieldIdFromStr(s) ==
    IF \E f \in CgroupModelFieldIds : CgroupModelFieldIdToString(f) = s
    THEN [ok |-> CHOOSE f \in CgroupModelFieldIds : CgroupModelFieldIdToString(f) = s]
    ELSE [err |-> "Unable to find a variant of the given enum matching the string."]

\* <VecFieldId<CgroupModel> as CallToString>::to_string
VecFieldIdToString(self) ==
    UsizeToString(self.idx) \o <<".">> \o CgroupModelFieldIdToString(self.subquery_id)

\* mutant: the index parsed with unwrap()
VecFieldIdFromStrUnwrap(s) ==
    LET dot == Find(s, ".")
    IN  IF IsSome(dot)
        THEN LET dot_idx == Unwrap(dot)
                 idx == ParseUsize(Slice(s, 0, dot_idx))
                 subquery_id == CgroupModelFieldIdFromStr(Slice(s, dot_idx + 1, Len(s)))
             IN  IF "err" \in DOMAIN idx THEN Panic
                 ELSE IF "err" \in DOMAIN subquery_id THEN subquery_id
                 ELSE [ok |-> [idx |-> idx.ok, subquery_id |-> subquery_id.ok]]
        ELSE [err |-> "Unable to find a variant of the given enum matching string."]

\* mutant: the text split at the last dot
VecFieldIdFromStrLastDot(s) ==
    LET dot == RFind(s, ".")
    IN  IF IsSome(dot)
        THEN LET dot_idx == Unwrap(dot)
                 idx_text == Slice(s, 0, dot_idx)
                 rest == Slice(s, dot_idx + 1, Len(s))
                 idx == ParseUsize(idx_text)
                 subquery_id == CgroupModelFieldIdFromStr(rest)
             IN  IF "err" \in DOMAIN idx THEN idx
                 ELSE IF "err" \in DOMAIN subquery_id THEN subquery_id
                 ELSE [ok |-> [idx |-> idx.ok, subquery_id |-> subquery_id.ok]]
        ELSE [err |-> "Unable to find a variant of the given enum matching string."]

\* <VecFieldId<CgroupModel> as CallFromStr>::from_str
VecFieldIdFromStr(s) ==
    LET dot == Find(s, ".")
    IN  IF IsSome(dot)
        THEN LET dot_idx == Unwrap(dot)
                 idx_text == Slice(s, 0, dot_idx)
                 rest == Slice(s, dot_idx + 1, Len(s))
             IN  IF ~SliceInRange(s, 0, dot_idx) \/ ~SliceInRange(s, dot_idx + 1, Len(s))
                 THEN Panic
                 ELSE LET idx == ParseUsize(idx_text)
                          subquery_id == CgroupModelFieldIdFromStr(rest)
                      IN  IF "err" \in DOMAIN idx THEN idx
                          ELSE IF "err" \in DOMAIN subquery_id THEN subquery_id
                          ELSE [ok |-> [idx |-> idx.ok, subquery_id |-> subquery_id.ok]]
        ELSE [err |-> "Unable to find a variant of the given enum matching string."]

-----------------------------------------------------------------------------
(* sort_queriables (model/src/lib.rs) over cgroup models *)

\* Ordering::reverse
OrderingReverse(order) ==
    CASE order = "Less" -> "Greater"
      [] order = "Greater" -> "Less"
      [] order = "Equal" -> "Equal"

\* <Option<Field> as PartialOrd>::partial_cmp: None is less than any Some
OptFieldPartialCmp(self, other) ==
    CASE IsNone(self) /\ IsNone(other) -> Some("Equal")
      [] IsNone(self) /\ IsSome(other) -> Some("Less")
      [] IsSome(self) /\ IsNone(other) -> Some("Greater")
      [] IsSome(self) /\ IsSome(other) -> FieldPartialCmp(Unwrap(self), Unwrap(other))

\* mutant: an absent query result compared as Equal to everything
SortCompareNoneEqual(lhs, rhs, field_id, reverse) ==
    LET l == CgroupModelQuery(lhs, field_id)
        r == CgroupModelQuery(rhs, field_id)
        cmp == IF IsSome(l) /\ IsSome(r) THEN FieldPartialCmp(Unwrap(l), Unwrap(r))
               ELSE None
        order == IF IsSome(cmp) THEN Unwrap(cmp) ELSE "Equal"
    IN  IF reverse THEN OrderingReverse(order) ELSE order

\* the closure sort_queriables hands to sort_by
SortCompare(lhs, rhs, field_id, reverse) ==
    LET cmp == OptFieldPartialCmp(CgroupModelQuery(lhs, field_id),
                                  CgroupModelQuery(rhs, field_id))
        order == IF IsSome(cmp) THEN Unwrap(cmp) ELSE "Equal"
    IN  IF reverse THEN OrderingReverse(order) ELSE order

\* sort_by's is_less: compare(a, b) == Less
IsLess(a, b, field_id, reverse) == SortCompare(a, b, field_id, reverse) = "Less"

\* insert_head of slice::sort_by: v[1] is moved right past the run of
\* elements less than it, into the sorted rest of v
InsertHead(v, field_id, reverse) ==
    IF Len(v) >= 2 /\ IsLess(v[2], v[1], field_id, reverse)
    THEN LET tmp == v[1]
             dest == CHOOSE d \in 2..Len(v) :
                        /\ \A i \in 2..d : IsLess(v[i], tmp, field_id, reverse)
                        /\ d = Len(v) \/ ~IsLess(v[d + 1], tmp, field_id, reverse)
         IN  SubSeq(v, 2, dest) \o <<tmp>> \o SubSeq(v, dest + 1, Len(v))
    ELSE v

\* slice::sort_by on a short slice: insert_head on v[i..] for i from the
\* last but one position down to the first
RECURSIVE InsertionSort(_, _, _, _)
InsertionSort(v, i, field_id, reverse) ==
    IF i < 1 THEN v
    ELSE InsertionSort(SubSeq(v, 1, i - 1)
                           \o InsertHead(SubSeq(v, i, Len(v)), field_id, reverse),
                       i - 1, field_id, reverse)

\* the elements of seq in the opposite order
RECURSIVE ReverseSeq(_)
ReverseSeq(seq) ==
    IF seq = <<>> THEN <<>> ELSE ReverseSeq(Tail(seq)) \o <<Head(seq)>>

\* mutant: reverse taken as sorting upwards and turning the slice around
sort_queriables_turned(queriables, field_id, reverse) ==
    LET sorted == InsertionSort(queriables, Len(queriables) - 1, field_id, FALSE)
    IN  IF reverse THEN ReverseSeq(sorted) ELSE sorted

\* sort_queriables: queriables as the call leaves the slice
sort_queriables(queriables, field_id, reverse) ==
    InsertionSort(queriables, Len(queriables) - 1, field_id, reverse)

-----------------------------------------------------------------------------
(* Inputs: the samples the collector hands over *)

MaxCounter == 2

MaxDeltaSecs == 2

\* raw counter readings
Counters == {c * 1000000 : c \in 0..MaxCounter}

OptCounters == {None} \cup {Some(c) : c \in Counters}

\* elapsed durations, 0 included
Deltas == {k * 1000000 : k \in 0..MaxDeltaSecs}

OptInodes == {None, Some(5), Some(7)}

Devices == {"sda", "sdb"}

Names == {"a", "b"}

\* a CgroupSample with every kernel file absent
EmptyCgroup ==
    [ inode_number        |-> None,
      cpu_stat            |-> None,
      io_stat             |-> None,
      memory_current      |-> None,
      memory_swap_current |-> None,
      memory_high         |-> None,
      memory_events       |-> None,
      memory_stat         |-> None,
      pressure            |-> None,
      children            |-> None ]

CpuStat(usec, count) ==
    [ usage_usec     |-> usec,
      user_usec      |-> usec,
      system_usec    |-> Some(0),
      nr_periods     |-> count,
      nr_throttled   |-> None,
      throttled_usec |-> count ]

IoStat(r, w) ==
    [ rbytes |-> r, wbytes |-> w, rios |-> r, wios |-> Some(0),
      dbytes |-> None, dios |-> w ]

MemoryStat(gauge, counter) ==
    [f \in MemoryGaugeFields \cup MemoryRateFields |->
        IF f \in MemoryGaugeFields THEN gauge
        ELSE IF f = "pgmajfault" THEN None
        ELSE counter]

MemoryEvents ==
    [ low |-> Some(0), high |-> Some(3), max |-> None, oom |-> Some(1),
      oom_kill |-> Some(1) ]

Pressure ==
    [ cpu    |-> [some |-> [avg10 |-> Some(Frac(1, 2))]],
      io     |-> [some |-> [avg10 |-> None], full |-> [avg10 |-> Some(F64(0))]],
      memory |-> [some |-> [avg10 |-> Some(Frac(25, 2))], full |-> [avg10 |-> None]] ]

\* every map from a subset of keys to vals
Maps(keys, vals) == UNION {[d -> vals] : d \in SUBSET keys}

\* a PidMap without processes
NoProcesses == <<>>

\* the current cgroup sample and the previous one, if any, as builder inputs
Input(smpl, lst) ==
    /\ sample = [cgroup |-> smpl, processes |-> NoProcesses]
    /\ last = lst

LastOf(smpl, delta) == Some(<<[cgroup |-> smpl, processes |-> NoProcesses], delta>>)

\* single cgroups that differ in inode number and cpu.stat
CpuCgroups ==
    {[EmptyCgroup EXCEPT !.inode_number = i, !.cpu_stat = c] :
        i \in OptInodes,
        c \in {None} \cup {Some(CpuStat(u, n)) : u \in OptCounters, n \in OptCounters}}

CpuInputs ==
    \E s \in CpuCgroups :
        \/ Input(s, None)
        \/ \E l \in CpuCgroups, d \in Deltas : Input(s, LastOf(l, d))

\* single cgroups that differ in inode number and io.stat
IoCgroups(stats) ==
    {[EmptyCgroup EXCEPT !.inode_number = i, !.io_stat = m] :
        i \in OptInodes,
        m \in {None} \cup {Some(x) : x \in Maps(Devices, stats)}}

IoInputs ==
    \E s \in IoCgroups({IoStat(r, w) : r \in OptCounters, w \in {None, Some(0)}}),
       l \in IoCgroups({IoStat(None, None), IoStat(Some(1000000), Some(1000000))}),
       d \in Deltas :
        Input(s, LastOf(l, d))

\* single cgroups that differ in inode number, the memory files and pressure
MemoryCgroups(currents, flags) ==
    {[EmptyCgroup EXCEPT
          !.inode_number = i,
          !.memory_current = c,
          !.memory_swap_current = IF e THEN Some(0) ELSE None,
          !.memory_high = IF e THEN Some(-1) ELSE None,
          !.memory_events = IF e THEN Some(MemoryEvents) ELSE None,
          !.memory_stat = m,
          !.pressure = IF p THEN Some(Pressure) ELSE None] :
        i \in OptInodes, c \in currents, e \in flags, p \in flags,
        m \in {None} \cup {Some(MemoryStat(g, n)) :
                              g \in {None, Some(4096)}, n \in OptCounters}}

\* the elapsed time is positive here: the u64 held by a rate field cannot
\* represent the saturated conversion of an infinite rate
MemoryInputs ==
    \E s \in MemoryCgroups({None, Some(100)}, BOOLEAN),
       l \in MemoryCgroups({None}, {FALSE}),
       d \in Deltas \ {0} :
        Input(s, LastOf(l, d))

\* a cgroup with every file present, at counter level k
FullCgroup(i, k, children) ==
    [ inode_number        |-> i,
      cpu_stat            |-> Some(CpuStat(Some(k * 1000000), Some(k))),
      io_stat             |-> Some([dev \in {"sda"} |-> IoStat(Some(k * 1000000), None)]),
      memory_current      |-> Some(k * 100),
      memory_swap_current |-> Some(0),
      memory_high         |-> Some(1000),
      memory_events       |-> Some(MemoryEvents),
      memory_stat         |-> None,
      pressure            |-> Some(Pressure),
      children            |-> children ]

LeafCgroups ==
    {EmptyCgroup} \cup {FullCgroup(i, k, None) : i \in {Some(5), Some(7)}, k \in {1, 2}}

ChildCgroups ==
    LeafCgroups
        \cup {FullCgroup(Some(5), 1, Some([n \in {"a"} |-> c])) :
                c \in {FullCgroup(Some(5), 1, None), FullCgroup(Some(7), 2, Some(<<>>))}}

\* cgroup trees of depth up to 2 under a root
TreeCgroups ==
    {FullCgroup(i, 1, c) :
        i \in {Some(5), Some(7)},
        c \in {None} \cup {Some(m) : m \in Maps(Names, ChildCgroups)}}

TreeInputs ==
    \E s \in TreeCgroups :
        \/ Input(s, None)
        \/ \E l \in TreeCgroups : Input(s, LastOf(l, 1000000))

Pids == {1, 2, 3}

\* a PidInfo; rd and wr are the io counters, user and sys the cpu counters
PidInfoOf(pid, rd, wr, user, sys) ==
    [ stat |-> [ pid          |-> Some(pid),
                 ppid         |-> Some(0),
                 comm         |-> Some("sh"),
                 state        |-> Some("Sleeping"),
                 running_secs |-> Some(3),
                 user_usecs   |-> user,
                 system_usecs |-> sys,
                 num_threads  |-> Some(1),
                 minflt       |-> rd,
                 majflt       |-> None,
                 rss_bytes    |-> Some(4096) ],
      io   |-> [ rbytes |-> rd, wbytes |-> wr ],
      mem  |-> [ vm_size |-> Some(8192), lock |-> Some(0), pin |-> None,
                 anon |-> Some(4096), file |-> Some(0), shmem |-> None,
                 pte |-> Some(0), swap |-> None, huge_tlb |-> Some(0) ],
      cgroup      |-> "/a",
      cmdline_vec |-> IF pid = 1 THEN Some(<<"sh", "-c">>) ELSE None,
      exe_path    |-> Some("/bin/sh") ]

\* the process samples and the previous ones, if any, as builder inputs
ProcessInput(smpl, lst) ==
    /\ sample = [cgroup |-> EmptyCgroup, processes |-> smpl]
    /\ last = lst

ProcessLastOf(smpl, delta) ==
    Some(<<[cgroup |-> EmptyCgroup, processes |-> smpl], delta>>)

\* one process seen in both samples, its counters present or absent
ProcessRateInputs ==
    \E rd0 \in OptCounters, rd1 \in OptCounters, wr \in {None, Some(1000000)},
       user0 \in OptCounters, user1 \in OptCounters, d \in Deltas :
        ProcessInput([p \in {1} |-> PidInfoOf(1, rd1, wr, user1, wr)],
                     ProcessLastOf([p \in {1} |-> PidInfoOf(1, rd0, wr, user0, wr)], d))

\* processes coming and going between the samples
PidSetInputs ==
    \E cur \in SUBSET Pids :
        LET smpl == [p \in cur |-> PidInfoOf(p, Some(1000000), Some(0), Some(1000000), None)]
        IN  \/ ProcessInput(smpl, None)
            \/ \E prev \in SUBSET Pids :
                   ProcessInput(smpl,
                                ProcessLastOf([p \in prev |->
                                                  PidInfoOf(p, Some(0), Some(0), Some(0), None)],
                                              1000000))

\* (name, full_path, depth) of a call of CgroupModel::new
NewArgs == {<<"<root>", "", 0>>, <<"a", "/a", 1>>}

-----------------------------------------------------------------------------
(* The state machine: a pair of samples, then one call of a builder *)

Init ==
    /\ (CpuInputs \/ IoInputs \/ MemoryInputs \/ TreeInputs)
    /\ node = None
    /\ model = None
    /\ args = None
    /\ result = None
    /\ NoView

\* the cgroup part of `last`
LastCgroup ==
    IF IsSome(last) THEN Some(<<Unwrap(last)[1].cgroup, Unwrap(last)[2]>>) ELSE None

\* a call CgroupModel::new(name, full_path, depth, &sample.cgroup, last)
BuildCgroup ==
    /\ node = None /\ model = None
    /\ \E a \in NewArgs :
          node' = Some(CgroupModelNew(a[1], a[2], a[3], sample.cgroup, LastCgroup))
    /\ UNCHANGED <<sample, last, model, args, result, state, caller_reverse>>

\* a call Model::new(timestamp, &sample, last)
BuildModel ==
    /\ node = None /\ model = None
    /\ model' = Some(ModelNew(sample, last))
    /\ UNCHANGED <<sample, last, node, args, result, state, caller_reverse>>

Next == BuildCgroup \/ BuildModel

Spec == Init /\ [][Next]_vars

\* Model::new over process samples
ProcessInit ==
    /\ (ProcessRateInputs \/ PidSetInputs)
    /\ node = None
    /\ model = None
    /\ args = None
    /\ result = None
    /\ NoView

ProcessNext == BuildModel

ProcessSpec == ProcessInit /\ [][ProcessNext]_vars

-----------------------------------------------------------------------------
(* Properties *)

\* the same-named child of the previous cgroup sample, as the specification
\* of the recursion states it
PrevChild(lst, child_name) ==
    IF IsSome(lst) /\ IsSome(Unwrap(lst)[1].children)
          /\ child_name \in DOMAIN Unwrap(Unwrap(lst)[1].children)
    THEN Some(<<Unwrap(Unwrap(lst)[1].children)[child_name], Unwrap(lst)[2]>>)
    ELSE None

\* every node of the tree under n, with the samples it is to be built from
RECURSIVE Calls(_, _, _)
Calls(n, smpl, lst) ==
    {[node |-> n, sample |-> smpl, last |-> lst]}
        \cup UNION {Calls(n.children[c], Unwrap(smpl.children)[c], PrevChild(lst, c)) :
                      c \in DOMAIN n.children}

\* the nodes of the tree a call of CgroupModel::new returned
BuiltCalls ==
    IF IsSome(node) THEN Calls(Unwrap(node), sample.cgroup, LastCgroup) ELSE {}

PrevInode(c) == Unwrap(c.last)[1].inode_number

Delta(c) == Unwrap(c.last)[2]

\* both inode numbers present and different, or exactly one present
InodeChanged(c) ==
    /\ IsSome(c.last)
    /\ \/ IsSome(PrevInode(c)) /\ IsSome(c.sample.inode_number)
             /\ Unwrap(PrevInode(c)) # Unwrap(c.sample.inode_number)
       \/ IsSome(PrevInode(c)) /\ IsNone(c.sample.inode_number)
       \/ IsNone(PrevInode(c)) /\ IsSome(c.sample.inode_number)

\* both inode numbers present and equal, or both absent
InodeContinuous(c) ==
    /\ IsSome(c.last)
    /\ \/ IsSome(PrevInode(c)) /\ IsSome(c.sample.inode_number)
             /\ Unwrap(PrevInode(c)) = Unwrap(c.sample.inode_number)
       \/ IsNone(PrevInode(c)) /\ IsNone(c.sample.inode_number)

\* C1: a node built against a previous sample whose inode number differs, or
\* where exactly one of the two samples has an inode number, has recreate_flag
\* set and no cpu, io or io_total, whatever the counters are.
C1_InodeChangeInvalidates ==
    \A c \in BuiltCalls :
        InodeChanged(c) =>
            /\ c.node.recreate_flag = TRUE
            /\ c.node.cpu = None
            /\ c.node.io = None
            /\ c.node.io_total = None

\* a recreated node whose two samples both carry cpu.stat and io.stat counters
C1_Witness ==
    \E c \in BuiltCalls :
        /\ InodeChanged(c)
        /\ c.node.recreate_flag
        /\ \/ IsSome(c.sample.cpu_stat) /\ IsSome(Unwrap(c.last)[1].cpu_stat)
           \/ IsSome(c.sample.io_stat) /\ IsSome(Unwrap(c.last)[1].io_stat)

\* C2: with a previous sample of the same identity, recreate_flag is false,
\* cpu is present exactly when both samples have cpu.stat, and usage_pct is
\* (end.usage_usec - begin.usage_usec) / elapsed microseconds * 100 when both
\* readings exist and time has elapsed; inode 5 twice, 1,000,000 then
\* 2,000,000 usec over one second is 100 percent.
C2_ContinuousCpu ==
    \A c \in BuiltCalls :
        InodeContinuous(c) =>
            LET begin == Unwrap(c.last)[1].cpu_stat
                end == c.sample.cpu_stat
            IN  /\ c.node.recreate_flag = FALSE
                /\ IsSome(c.node.cpu) <=> (IsSome(begin) /\ IsSome(end))
                /\ (/\ IsSome(begin) /\ IsSome(end)
                    /\ IsSome(Unwrap(begin).usage_usec)
                    /\ IsSome(Unwrap(end).usage_usec)
                    /\ Delta(c) > 0) =>
                        Unwrap(c.node.cpu).usage_pct =
                            Some(Frac((Unwrap(Unwrap(end).usage_usec)
                                         - Unwrap(Unwrap(begin).usage_usec)) * 100,
                                      Delta(c)))
                /\ (/\ c.sample.inode_number = Some(5)
                    /\ IsSome(begin) /\ IsSome(end)
                    /\ Unwrap(begin).usage_usec = Some(1000000)
                    /\ Unwrap(end).usage_usec = Some(2000000)
                    /\ Delta(c) = 1000000) =>
                        Unwrap(c.node.cpu).usage_pct = Some(F64(100))

\* the scenario: inode 5 twice, usage 1,000,000 then 2,000,000, one second
C2_Witness ==
    \E c \in BuiltCalls :
        /\ InodeContinuous(c)
        /\ c.sample.inode_number = Some(5)
        /\ IsSome(c.node.cpu)
        /\ Unwrap(Unwrap(c.last)[1].cpu_stat).usage_usec = Some(1000000)
        /\ Unwrap(c.sample.cpu_stat).usage_usec = Some(2000000)
        /\ Delta(c) = 1000000
        /\ Unwrap(c.node.cpu).usage_pct = Some(F64(100))

\* every node of the tree under n
RECURSIVE Nodes(_)
Nodes(n) == {n} \cup UNION {Nodes(n.children[c]) : c \in DOMAIN n.children}

\* the sum of f over the finite set S
RECURSIVE SumOver(_, _)
SumOver(S, f) ==
    IF S = {} THEN 0
    ELSE LET x == CHOOSE y \in S : TRUE IN f[x] + SumOver(S \ {x}, f)

\* C3: in a tree built by CgroupModel::new every node's count is 1 plus the
\* sum of its children's counts; a leaf has count 1.
C3_CountIsOnePlusChildren ==
    IsSome(node) =>
        \A n \in Nodes(Unwrap(node)) :
            n.count = 1 + SumOver(DOMAIN n.children,
                                  [c \in DOMAIN n.children |-> n.children[c].count])

\* a built tree with two children, one of them with a child of its own
C3_Witness ==
    /\ IsSome(node)
    /\ Unwrap(node).count = 4
    /\ DOMAIN Unwrap(node).children = {"a", "b"}
    /\ \E n \in Nodes(Unwrap(node)) : n.count = 1 /\ n.depth = Unwrap(node).depth + 2

\* the f64 sum of f over the finite set S, from 0.0
RECURSIVE SumF64(_, _)
SumF64(S, f) ==
    IF S = {} THEN F64(0)
    ELSE LET x == CHOOSE y \in S : TRUE IN F64Add(f[x], SumF64(S \ {x}, f))

\* C4: io_total is None exactly when the per-device map io is None; otherwise
\* each of its fields is the sum, from Some(0.0), of the values present in that
\* field over the devices of the map, so an empty map gives Some(0.0) everywhere.
C4_IoTotalIsFoldFromEmpty ==
    \A c \in BuiltCalls :
        /\ IsNone(c.node.io_total) <=> IsNone(c.node.io)
        /\ IsSome(c.node.io) =>
              LET io == Unwrap(c.node.io)
                  io_total == Unwrap(c.node.io_total)
              IN  /\ \A f \in IoFields :
                        LET present == {d \in DOMAIN io : IsSome(io[d][f])}
                        IN  io_total[f] =
                                Some(SumF64(present, [d \in present |-> Unwrap(io[d][f])]))
                  /\ DOMAIN io = {} => io_total = [f \in IoFields |-> Some(F64(0))]

\* a total over two devices where a field is absent for one device and
\* present, and not zero, for the other
C4_Witness ==
    \E c \in BuiltCalls :
        /\ IsSome(c.node.io)
        /\ DOMAIN Unwrap(c.node.io) = {"sda", "sdb"}
        /\ IsNone(Unwrap(c.node.io)["sda"].rbytes_per_sec)
        /\ IsSome(Unwrap(c.node.io)["sdb"].rbytes_per_sec)
        /\ Unwrap(c.node.io_total).rbytes_per_sec \notin {None, Some(F64(0))}

\* the inputs of call c with the inode numbers replaced by i (current) and j (previous)
WithInodes(c, i, j) ==
    [ sample |-> [c.sample EXCEPT !.inode_number = i],
      last |-> IF IsSome(c.last)
               THEN Some(<<[Unwrap(c.last)[1] EXCEPT !.inode_number = j], Delta(c)>>)
               ELSE None ]

\* C5: memory and pressure of a built node do not depend on the inode numbers:
\* they are those of the build from the same samples with both inode numbers
\* removed, so any two builds whose inputs differ only in the inode numbers
\* agree on them.  memory is always present, a rate field is present whenever both
\* memory.stat blocks hold its counter (recreated or not), and pressure is
\* present exactly when the current sample has pressure.
C5_MemoryPressureIgnoreInodes ==
    /\ IsSome(node) =>
              LET c == [node |-> Unwrap(node), sample |-> sample.cgroup, last |-> LastCgroup]
                  in == WithInodes(c, None, None)
                  other == CgroupModelNew(c.node.name, c.node.full_path, c.node.depth,
                                          in.sample, in.last)
              IN  other.memory = c.node.memory /\ other.pressure = c.node.pressure
    /\ \A c \in BuiltCalls :
        /\ IsSome(c.node.memory)
        /\ (IsSome(c.last) /\ IsSome(c.sample.memory_stat)
                /\ IsSome(Unwrap(c.last)[1].memory_stat)) =>
              \A f \in MemoryRateFields :
                  LET begin == Unwrap(Unwrap(c.last)[1].memory_stat)[f]
                      end == Unwrap(c.sample.memory_stat)[f]
                      secs == Delta(c) \div 1000000
                      rate == Unwrap(c.node.memory)[f]
                  IN  /\ IsSome(rate) <=> (IsSome(begin) /\ IsSome(end))
                      /\ (/\ IsSome(begin) /\ IsSome(end)
                          /\ Unwrap(end) >= Unwrap(begin)
                          /\ (Unwrap(end) - Unwrap(begin)) % secs = 0) =>
                              Unwrap(rate) * secs = Unwrap(end) - Unwrap(begin)
        /\ IsSome(c.node.pressure) <=> IsSome(c.sample.pressure)

\* a recreated node (no cpu, no io) whose page fault rate is computed all the same
C5_Witness ==
    \E c \in BuiltCalls :
        /\ InodeChanged(c)
        /\ c.node.recreate_flag /\ IsNone(c.node.cpu) /\ IsNone(c.node.io)
        /\ IsSome(Unwrap(c.node.memory).pgfault)
        /\ Unwrap(Unwrap(c.node.memory).pgfault) > 0
        /\ IsSome(c.node.pressure)

\* C6: a built node has one child per child name of the current sample and no
\* other; each child has the parent's depth plus 1 and the parent's full_path
\* followed by "/" and its name, and is the model built from the child sample
\* against the same-named child of the previous sample, or against no previous
\* sample when there is none.  The children are keyed by name.
C6_ChildrenFollowCurrentSample ==
    \A c \in BuiltCalls :
        LET kids == IF IsSome(c.sample.children) THEN Unwrap(c.sample.children) ELSE <<>>
        IN  /\ DOMAIN c.node.children = DOMAIN kids
            /\ \A k \in DOMAIN kids :
                  LET child == c.node.children[k]
                  IN  /\ child.name = k
                      /\ child.depth = c.node.depth + 1
                      /\ child.full_path = c.node.full_path \o "/" \o k
                      /\ child = CgroupModelNew(k, c.node.full_path \o "/" \o k,
                                                c.node.depth + 1, kids[k],
                                                PrevChild(c.last, k))

\* child a is in both samples and is built with its rates, child b is new,
\* and the previous sample has a child of a that is gone
C6_Witness ==
    \E c \in BuiltCalls :
        /\ IsSome(c.last)
        /\ DOMAIN c.node.children = {"a", "b"}
        /\ IsSome(PrevChild(c.last, "a")) /\ IsNone(PrevChild(c.last, "b"))
        /\ IsSome(c.node.children["a"].cpu)
        /\ IsNone(c.node.children["b"].cpu) /\ ~c.node.children["b"].recreate_flag
        /\ c.node.children["a"].children = <<>>
        /\ IsSome(Unwrap(PrevChild(c.last, "a"))[1].children)
        /\ c.node.children["a"].full_path = c.node.full_path \o "/a"

\* the root cgroup of the Model that Model::new returned
Root == Unwrap(model).cgroup

\* the call of CgroupModel::new that Model::new makes for the root
RootCall == [node |-> Root, sample |-> sample.cgroup, last |-> LastCgroup]

\* the sum of the present values f[x], x in S; None when none is present
OptSum(S, f) ==
    LET present == {x \in S : IsSome(f[x])}
    IN  IF present = {} THEN None
        ELSE Some(SumOver(present, [x \in present |-> Unwrap(f[x])]))

\* field f of the memory models of the children of n, by child name
ChildMemory(n, f) == [k \in DOMAIN n.children |-> Unwrap(n.children[k].memory)[f]]

\* field f of the root's memory, None when the root has no memory model
RootMemory(f) == IF IsSome(Root.memory) THEN Unwrap(Root.memory)[f] ELSE None

\* C7 as stated: every field of the root's memory model, memory_high included,
\* is the opt_add sum of that field over the root's direct children.
C7_Original ==
    IsSome(model) =>
        \A f \in MemoryFields :
            RootMemory(f) = OptSum(DOMAIN Root.children, ChildMemory(Root, f))

\* C7 amended: in the Model built by Model::new the root's memory replaces
\* what the root sample reported: it is None when the root has no children;
\* otherwise every field but memory_high is the opt_add sum of that field over
\* the direct children, and memory_high is the child's own value for a single
\* child and None for two or more.  Children with totals 100 and 200 give 300.
C7_RootMemoryIsChildrenSum ==
    IsSome(model) =>
        LET kids == DOMAIN Root.children IN
        /\ kids = {} => Root.memory = None
        /\ kids # {} =>
              /\ IsSome(Root.memory)
              /\ \A f \in MemoryFields \ {"memory_high"} :
                    Unwrap(Root.memory)[f] = OptSum(kids, ChildMemory(Root, f))
              /\ Unwrap(Root.memory).memory_high =
                    IF Cardinality(kids) = 1
                    THEN ChildMemory(Root, "memory_high")[CHOOSE k \in kids : TRUE]
                    ELSE None
        /\ (/\ kids = {"a", "b"}
            /\ ChildMemory(Root, "total")["a"] = Some(100)
            /\ ChildMemory(Root, "total")["b"] = Some(200)) =>
                Unwrap(Root.memory).total = Some(300)

\* a root that reported 100 itself, with children of totals 100 and 200
C7_Witness ==
    /\ IsSome(model)
    /\ sample.cgroup.memory_current = Some(100)
    /\ DOMAIN Root.children = {"a", "b"}
    /\ ChildMemory(Root, "total")["a"] = Some(100)
    /\ ChildMemory(Root, "total")["b"] = Some(200)
    /\ ChildMemory(Root, "memory_high")["a"] = Some(1000)
    /\ Unwrap(Root.memory).total = Some(300)
    /\ Unwrap(Root.memory).memory_high = None

\* the sum of the present values f[x], x in S, as f64; None when none is present
OptSumF64(S, f) ==
    LET present == {x \in S : IsSome(f[x])}
    IN  IF present = {} THEN None
        ELSE Some(SumF64(present, [x \in present |-> Unwrap(f[x])]))

\* the field-wise sum of sub-model `part` over the children of n that have it
ChildrenSum(n, part, fields) ==
    LET having == {k \in DOMAIN n.children : IsSome(n.children[k][part])}
    IN  IF having = {} THEN None
        ELSE Some([f \in fields |->
                    OptSumF64(having, [k \in having |-> Unwrap(n.children[k][part])[f]])])

\* C8 as stated: the root's cpu and pressure are the sums of its direct
\* children's cpu and pressure.
C8_Original ==
    IsSome(model) =>
        /\ Root.cpu = ChildrenSum(Root, "cpu", CpuFields)
        /\ Root.pressure = ChildrenSum(Root, "pressure", PressureFields)

\* C8 amended: the root of the Model is named "<root>", at depth 0 with an
\* empty full_path, and aggr_top_level_val replaces its memory only: cpu,
\* pressure and every other field are those CgroupModel::new derives from the
\* root's own samples.
C8_OnlyMemoryOverridden ==
    IsSome(model) =>
        LET built == CgroupModelNew("<root>", "", 0, sample.cgroup, LastCgroup)
        IN  /\ Root.name = "<root>" /\ Root.depth = 0 /\ Root.full_path = ""
            /\ \A f \in DOMAIN Root \ {"memory"} : Root[f] = built[f]
            /\ IsSome(Root.cpu) <=>
                  /\ InodeContinuous(RootCall)
                  /\ IsSome(sample.cgroup.cpu_stat)
                  /\ IsSome(Unwrap(LastCgroup)[1].cpu_stat)
            /\ IsSome(Root.pressure) <=> IsSome(sample.cgroup.pressure)
            /\ IsSome(Root.pressure) =>
                  Unwrap(Root.pressure) = CgroupPressureModelNew(Unwrap(sample.cgroup.pressure))

\* a root with its own cpu and pressure whose children's cpu sums to
\* something else, and whose memory is the children's
C8_Witness ==
    /\ IsSome(model)
    /\ DOMAIN Root.children = {"a", "b"}
    /\ IsSome(Root.cpu) /\ IsSome(Root.pressure)
    /\ IsSome(ChildrenSum(Root, "cpu", CpuFields))
    /\ Root.cpu # ChildrenSum(Root, "cpu", CpuFields)
    /\ Root.pressure # ChildrenSum(Root, "pressure", PressureFields)
    /\ Unwrap(Root.memory).total = Some(300)

\* derived cpu field, raw counter, macro
CpuDerivations ==
    { <<"usage_pct", "usage_usec", "usec_pct">>,
      <<"user_pct", "user_usec", "usec_pct">>,
      <<"system_pct", "system_usec", "usec_pct">>,
      <<"nr_periods_per_sec", "nr_periods", "count_per_sec">>,
      <<"nr_throttled_per_sec", "nr_throttled", "count_per_sec">>,
      <<"throttled_pct", "throttled_usec", "usec_pct">> }

\* derived io field, raw counter
IoDerivations ==
    { <<"rbytes_per_sec", "rbytes">>, <<"wbytes_per_sec", "wbytes">>,
      <<"rios_per_sec", "rios">>, <<"wios_per_sec", "wios">>,
      <<"dbytes_per_sec", "dbytes">>, <<"dios_per_sec", "dios">> }

\* the calls that built a cpu model, a per-device io map, memory rates
CpuCalls == {c \in BuiltCalls : IsSome(c.node.cpu)}

IoCalls == {c \in BuiltCalls : IsSome(c.node.io)}

MemoryRateCalls ==
    {c \in BuiltCalls :
        IsSome(c.last) /\ IsSome(c.sample.memory_stat)
            /\ IsSome(Unwrap(c.last)[1].memory_stat)}

BeginCpu(c) == Unwrap(Unwrap(c.last)[1].cpu_stat)

EndCpu(c) == Unwrap(c.sample.cpu_stat)

BeginIo(c, dev) == Unwrap(Unwrap(c.last)[1].io_stat)[dev]

EndIo(c, dev) == Unwrap(c.sample.io_stat)[dev]

BeginMemory(c) == Unwrap(Unwrap(c.last)[1].memory_stat)

EndMemory(c) == Unwrap(c.sample.memory_stat)

\* C9: a derived cpu, io or memory rate is None whenever its begin or its end
\* counter is absent, and the microsecond percentages of the cpu model are
\* None whenever the elapsed duration is 0.
C9_AbsentOrZeroElapsedGivesNone ==
    /\ \A c \in CpuCalls : \A d \in CpuDerivations :
          /\ (IsNone(BeginCpu(c)[d[2]]) \/ IsNone(EndCpu(c)[d[2]])) =>
                Unwrap(c.node.cpu)[d[1]] = None
          /\ (d[3] = "usec_pct" /\ Delta(c) = 0) => Unwrap(c.node.cpu)[d[1]] = None
    /\ \A c \in IoCalls : \A dev \in DOMAIN Unwrap(c.node.io) : \A d \in IoDerivations :
          (IsNone(BeginIo(c, dev)[d[2]]) \/ IsNone(EndIo(c, dev)[d[2]])) =>
                Unwrap(c.node.io)[dev][d[1]] = None
    /\ \A c \in MemoryRateCalls : \A f \in MemoryRateFields :
          (IsNone(BeginMemory(c)[f]) \/ IsNone(EndMemory(c)[f])) =>
                Unwrap(c.node.memory)[f] = None

\* a cpu model built over an elapsed time of 0 from counters that are all
\* there: the percentage is None, the count rate is not
C9_Witness ==
    \E c \in CpuCalls :
        /\ Delta(c) = 0
        /\ IsSome(BeginCpu(c).usage_usec) /\ IsSome(EndCpu(c).usage_usec)
        /\ IsSome(BeginCpu(c).throttled_usec) /\ IsSome(EndCpu(c).throttled_usec)
        /\ Unwrap(EndCpu(c).usage_usec) > Unwrap(BeginCpu(c).usage_usec)
        /\ Unwrap(c.node.cpu).usage_pct = None
        /\ Unwrap(c.node.cpu).throttled_pct = None
        /\ IsSome(Unwrap(c.node.cpu).nr_periods_per_sec)

\* (end - begin) / elapsed seconds
SignedRate(begin, end, delta) ==
    LET g == Gcd(1000000, delta)
    IN  Frac((Unwrap(end) - Unwrap(begin)) * (1000000 \div g), delta \div g)

\* (end - begin) / elapsed microseconds * 100
SignedPct(begin, end, delta) == Frac((Unwrap(end) - Unwrap(begin)) * 100, delta)

\* begin and end present, begin > end
Rollback(begin, end) == IsSome(begin) /\ IsSome(end) /\ Unwrap(begin) > Unwrap(end)

\* on a rollback with time elapsed, the cpu and io rates are the signed
\* difference over the elapsed time, a negative value
F64RatesSigned ==
    /\ \A c \in CpuCalls : \A d \in CpuDerivations :
          (Rollback(BeginCpu(c)[d[2]], EndCpu(c)[d[2]]) /\ Delta(c) > 0) =>
              LET rate == Unwrap(c.node.cpu)[d[1]]
                  begin == BeginCpu(c)[d[2]]
                  end == EndCpu(c)[d[2]]
              IN  /\ IsSome(rate)
                  /\ Unwrap(rate).n < 0
                  /\ Unwrap(rate) = IF d[3] = "usec_pct"
                                    THEN SignedPct(begin, end, Delta(c))
                                    ELSE SignedRate(begin, end, Delta(c))
    /\ \A c \in IoCalls : \A dev \in DOMAIN Unwrap(c.node.io) : \A d \in IoDerivations :
          (Rollback(BeginIo(c, dev)[d[2]], EndIo(c, dev)[d[2]]) /\ Delta(c) > 0) =>
              LET rate == Unwrap(c.node.io)[dev][d[1]]
              IN  /\ IsSome(rate)
                  /\ Unwrap(rate).n < 0
                  /\ Unwrap(rate) =
                        SignedRate(BeginIo(c, dev)[d[2]], EndIo(c, dev)[d[2]], Delta(c))

\* C10 as stated: on a rollback with time elapsed every derived rate, the
\* memory rates included, is the signed difference over the elapsed time, a
\* negative value, and is neither zero nor None.
C10_Original ==
    /\ F64RatesSigned
    /\ \A c \in MemoryRateCalls : \A f \in MemoryRateFields :
          (Rollback(BeginMemory(c)[f], EndMemory(c)[f]) /\ Delta(c) > 0) =>
              /\ IsSome(Unwrap(c.node.memory)[f])
              /\ Unwrap(Unwrap(c.node.memory)[f]) < 0

\* C10 amended: on a rollback with time elapsed the f64 rates and percentages
\* of CgroupCpuModel and CgroupIoModel are the signed difference over the
\* elapsed time, negative, never clamped or None; the rate fields of
\* CgroupMemoryModel are Option<u64> and never hold a negative value.
C10_SignedF64Rates ==
    /\ F64RatesSigned
    /\ \A c \in MemoryRateCalls : \A f \in MemoryRateFields :
          IsSome(Unwrap(c.node.memory)[f]) => Unwrap(Unwrap(c.node.memory)[f]) >= 0

\* a device whose read counter went back from 1,000,000 over one second or more
C10_Witness ==
    \E c \in IoCalls : \E dev \in DOMAIN Unwrap(c.node.io) :
        /\ Delta(c) > 0
        /\ Rollback(BeginIo(c, dev).rbytes, EndIo(c, dev).rbytes)
        /\ Unwrap(Unwrap(c.node.io)[dev].rbytes_per_sec).n < 0
        /\ Unwrap(Unwrap(c.node.io_total).rbytes_per_sec).n < 0

-----------------------------------------------------------------------------
(* opt_add as the cgroup io models use it: self + &other *)

\* the sample and model variables of a run that only calls the query layer
NoSamples == sample = None /\ last = None /\ node = None /\ model = None

\* optional rates: absent, zero, positive, negative and fractional
OptRates == {None, Some(F64(0)), Some(F64(1)), Some(Frac(-1, 2))}

\* a CgroupIoModel with the given byte rates
IoModelOf(r, w, rw) ==
    [ rbytes_per_sec  |-> r,
      wbytes_per_sec  |-> w,
      rios_per_sec    |-> w,
      wios_per_sec    |-> None,
      dbytes_per_sec  |-> Some(F64(0)),
      dios_per_sec    |-> r,
      rwbytes_per_sec |-> rw ]

IoModels == {IoModelOf(r, w, rw) : r \in OptRates, w \in OptRates, rw \in OptRates}

OptAddInit ==
    /\ NoSamples
    /\ NoView
    /\ \E self \in IoModels, other \in IoModels : args = Some(<<self, other>>)
    /\ result = None

\* a call self + &other
AddIo ==
    /\ result = None
    /\ result' = Some(CgroupIoModelAdd(Unwrap(args)[1], Unwrap(args)[2]))
    /\ UNCHANGED <<sample, last, node, model, args, state, caller_reverse>>

OptAddNext == AddIo

OptAddSpec == OptAddInit /\ [][OptAddNext]_vars

\* r is the f64 sum of the finite values a and b
IsSumOf(r, a, b) ==
    /\ IsFinite(r)
    /\ r.n * (a.d * b.d) = (a.n * b.d + b.n * a.d) * r.d

\* C11: in every field of a sum of two io models, None + None is None,
\* None + Some(x) and Some(x) + None are Some(x), and Some(a) + Some(b) is
\* Some(a + b).
C11_OptAddAlgebra ==
    IsSome(result) =>
        \A f \in IoFields :
            LET a == Unwrap(args)[1][f]
                b == Unwrap(args)[2][f]
                r == Unwrap(result)[f]
            IN  /\ (IsNone(a) /\ IsNone(b)) => r = None
                /\ (IsNone(a) /\ IsSome(b)) => r = b
                /\ (IsSome(a) /\ IsNone(b)) => r = a
                /\ (IsSome(a) /\ IsSome(b)) =>
                       IsSome(r) /\ IsSumOf(Unwrap(r), Unwrap(a), Unwrap(b))

\* one sum showing all four cases, the identity cases with a non-zero x
C11_Witness ==
    /\ IsSome(result)
    /\ LET self == Unwrap(args)[1]
           other == Unwrap(args)[2]
           sum == Unwrap(result)
       IN  /\ self.wios_per_sec = None /\ other.wios_per_sec = None
           /\ sum.wios_per_sec = None
           /\ self.rbytes_per_sec = None /\ other.rbytes_per_sec = Some(F64(1))
           /\ sum.rbytes_per_sec = Some(F64(1))
           /\ self.wbytes_per_sec = Some(Frac(-1, 2)) /\ other.wbytes_per_sec = None
           /\ sum.wbytes_per_sec = Some(Frac(-1, 2))
           /\ self.rwbytes_per_sec = Some(F64(1))
           /\ other.rwbytes_per_sec = Some(Frac(-1, 2))
           /\ sum.rwbytes_per_sec = Some(Frac(1, 2))

-----------------------------------------------------------------------------
(* Process models built by Model::new *)

\* the built process models
Processes == IF IsSome(model) THEN Unwrap(model).process.processes ELSE <<>>

\* the processes of the previous sample
PrevProcesses == IF IsSome(last) THEN Unwrap(last)[1].processes ELSE <<>>

\* the pids whose model was built against a previous PidInfo
PairedPids == DOMAIN Processes \cap DOMAIN PrevProcesses

\* both readings of a raw counter exist
BothSome(begin, end) == IsSome(begin) /\ IsSome(end)

\* C12: in every built process model a derived rate or percentage is None
\* unless a begin and an end value of a raw counter it derives from exist
\* (and, for a percentage, the elapsed time is above zero); this includes
\* rwbytes_per_sec of ProcessIoModel and usage_pct of ProcessCpuModel.
C12_DerivedNoneWithoutCounters ==
    \A pid \in PairedPids :
        LET m == Processes[pid]
            begin == PrevProcesses[pid]
            end == sample.processes[pid]
            delta == Unwrap(last)[2]
            rd == BothSome(begin.io.rbytes, end.io.rbytes)
            wr == BothSome(begin.io.wbytes, end.io.wbytes)
            user == BothSome(begin.stat.user_usecs, end.stat.user_usecs)
            sys == BothSome(begin.stat.system_usecs, end.stat.system_usecs)
            io == Unwrap(m.io)
            cpu == Unwrap(m.cpu)
            mem == Unwrap(m.mem)
        IN  /\ IsSome(io.rbytes_per_sec) => rd
            /\ IsSome(io.wbytes_per_sec) => wr
            /\ IsSome(io.rwbytes_per_sec) => (rd \/ wr)
            /\ IsSome(cpu.user_pct) => (user /\ delta > 0)
            /\ IsSome(cpu.system_pct) => (sys /\ delta > 0)
            /\ IsSome(cpu.usage_pct) => ((user \/ sys) /\ delta > 0)
            /\ IsSome(mem.minorfaults_per_sec) =>
                   BothSome(begin.stat.minflt, end.stat.minflt)
            /\ IsSome(mem.majorfaults_per_sec) =>
                   BothSome(begin.stat.majflt, end.stat.majflt)

-----------------------------------------------------------------------------
(* query on a Vec of cgroup models *)

MaxVecLen == 2

\* cgroup models as CgroupModel::new builds them: every sub-model absent,
\* cpu and io absent after a recreation, every sub-model present
QueryModels ==
    {CgroupModelNew("a", "/a", 1, s, l) :
        s \in {EmptyCgroup, FullCgroup(Some(5), 2, None)},
        l \in {None,
               Some(<<FullCgroup(Some(5), 1, None), 1000000>>),
               Some(<<FullCgroup(Some(7), 1, None), 1000000>>)}}

\* Vec<CgroupModel> of up to MaxVecLen elements
QueryVecs == UNION {[1..n -> QueryModels] : n \in 0..MaxVecLen}

\* VecFieldId<CgroupModel>, the index in and out of bounds
VecFieldIds ==
    {[idx |-> i, subquery_id |-> f] : i \in 0..MaxVecLen, f \in CgroupModelFieldIds}

QueryInit ==
    /\ NoSamples
    /\ NoView
    /\ \E v \in QueryVecs, f \in VecFieldIds : args = Some(<<v, f>>)
    /\ result = None

\* a call vec.query(&field_id)
Query ==
    /\ result = None
    /\ result' = Some(VecQuery(Unwrap(args)[1], Unwrap(args)[2]))
    /\ UNCHANGED <<sample, last, node, model, args, state, caller_reverse>>

QueryNext == Query

QuerySpec == QueryInit /\ [][QueryNext]_vars

\* the sub-model a subquery FieldId traverses is absent in model m
TraversesAbsent(m, field_id) ==
    /\ Len(field_id) = 2
    /\ \/ field_id[1] = "cpu" /\ m.cpu = None
       \/ field_id[1] = "mem" /\ m.memory = None
       \/ field_id[1] = "io" /\ m.io_total = None
       \/ field_id[1] = "pressure" /\ m.pressure = None

\* C13: a query whose index is out of bounds returns None; otherwise it
\* returns what the query of element idx with the nested FieldId returns,
\* which is None when the nested FieldId traverses an absent sub-model.
C13_VecQueryDelegates ==
    IsSome(result) =>
        LET vec == Unwrap(args)[1]
            field_id == Unwrap(args)[2]
            r == Unwrap(result)
        IN  IF field_id.idx >= Len(vec) THEN r = None
            ELSE LET m == vec[field_id.idx + 1]
                 IN  /\ r = CgroupModelQuery(m, field_id.subquery_id)
                     /\ TraversesAbsent(m, field_id.subquery_id) => r = None

\* the second of two elements is queried through a present sub-model, the
\* first one has that sub-model absent
C13_Witness ==
    /\ IsSome(result)
    /\ LET vec == Unwrap(args)[1]
           field_id == Unwrap(args)[2]
       IN  /\ Len(vec) = 2
           /\ field_id = [idx |-> 1, subquery_id |-> <<"cpu", "usage_pct">>]
           /\ vec[1].cpu = None
           /\ IsSome(vec[2].cpu)
           /\ Unwrap(result) = Some(FieldF64(F64(100)))

-----------------------------------------------------------------------------
(* VecFieldId: to_string and from_str *)

MaxIdx == 11

MaxTextLen == 4

\* the symbols of the texts parsed
Symbols == {"0", "1", "+", "-", ".", "cpu", "usage_pct", "name", "bogus"}

\* every text of up to MaxTextLen symbols, and longer ones with two dots
Texts ==
    UNION {[1..n -> Symbols] : n \in 0..MaxTextLen}
        \cup {<<i, ".", "cpu", ".", f>> : i \in Symbols, f \in Symbols}

\* VecFieldId<CgroupModel> values with indices of one and two digits
ParseFieldIds ==
    {[idx |-> i, subquery_id |-> f] : i \in 0..MaxIdx, f \in CgroupModelFieldIds}

ParseInit ==
    /\ NoSamples
    /\ NoView
    /\ \/ \E v \in ParseFieldIds : args = Some([field_id |-> v])
       \/ \E t \in Texts : args = Some([text |-> t])
    /\ result = None

\* a call field_id.to_string()
CallToString ==
    /\ result = None
    /\ "field_id" \in DOMAIN Unwrap(args)
    /\ result' = Some([text |-> VecFieldIdToString(Unwrap(args).field_id)])
    /\ UNCHANGED <<sample, last, node, model, args, state, caller_reverse>>

\* a call VecFieldId::from_str(text), of a given text or of the text that
\* to_string returned
CallFromStr ==
    /\ \/ result = None /\ "text" \in DOMAIN Unwrap(args)
          /\ result' = Some([parsed |-> VecFieldIdFromStr(Unwrap(args).text)])
       \/ IsSome(result) /\ DOMAIN Unwrap(result) = {"text"}
          /\ result' = Some([text   |-> Unwrap(result).text,
                             parsed |-> VecFieldIdFromStr(Unwrap(result).text)])
    /\ UNCHANGED <<sample, last, node, model, args, state, caller_reverse>>

ParseNext == CallToString \/ CallFromStr

ParseSpec == ParseInit /\ [][ParseNext]_vars

\* the FieldId to_string was called on, once it has returned
Serialized == IsSome(result) /\ "text" \in DOMAIN Unwrap(result)

\* from_str has returned
Parsed == IsSome(result) /\ "parsed" \in DOMAIN Unwrap(result)

\* C14: to_string gives "<index>.<nested path>", the index being the text
\* before the first dot and the nested path all that follows it, and
\* from_str of that text gives the VecFieldId back.
C14_RoundTrip ==
    Serialized =>
        LET v == Unwrap(args).field_id
            text == Unwrap(result).text
            dot == Find(text, ".")
        IN  /\ IsSome(dot)
            /\ SubSeq(text, 1, Unwrap(dot)) = UsizeToString(v.idx)
            /\ \A i \in 1..Unwrap(dot) : IsDigit(text[i])
            /\ DigitsValue(SubSeq(text, 1, Unwrap(dot))) = v.idx
            /\ SubSeq(text, Unwrap(dot) + 2, Len(text))
                   = CgroupModelFieldIdToString(v.subquery_id)
            /\ Parsed => Unwrap(result).parsed = [ok |-> v]

\* a two-digit index and a nested path with a dot of its own, parsed back
C14_Witness ==
    /\ Serialized /\ Parsed
    /\ Unwrap(args).field_id = [idx |-> 10, subquery_id |-> <<"cpu", "usage_pct">>]
    /\ Unwrap(result).text = <<"1", "0", ".", "cpu", ".", "usage_pct">>
    /\ Unwrap(result).parsed = [ok |-> Unwrap(args).field_id]

\* the text denotes an index: digits, possibly after a "+"
NumericIndex(text) ==
    LET digits == IF text # <<>> /\ text[1] = "+" THEN Tail(text) ELSE text
    IN  digits # <<>> /\ \A i \in 1..Len(digits) : IsDigit(digits[i])

\* the text is the path of a CgroupModelFieldId
NestedPath(text) ==
    \/ Len(text) = 1 /\ <<text[1]>> \in CgroupModelFieldIds
    \/ Len(text) = 3 /\ text[2] = "." /\ <<text[1], text[3]>> \in CgroupModelFieldIds

\* no dot, no index before the first dot, or no nested path after it
Malformed(text) ==
    \/ \A i \in 1..Len(text) : text[i] # "."
    \/ \E i \in 1..Len(text) :
          /\ text[i] = "." /\ \A j \in 1..(i - 1) : text[j] # "."
          /\ \/ ~NumericIndex(SubSeq(text, 1, i - 1))
             \/ ~NestedPath(SubSeq(text, i + 1, Len(text)))

\* C15: from_str never panics; a text without a dot, with a non-numeric or
\* negative index before the first dot, or with a nested path the element's
\* FieldId rejects gives an error value, and every other text a VecFieldId.
C15_ParseNeverPanics ==
    (Parsed /\ "text" \in DOMAIN Unwrap(args)) =>
        LET text == Unwrap(args).text
            parsed == Unwrap(result).parsed
        IN  /\ DOMAIN parsed \in {{"ok"}, {"err"}}
            /\ Malformed(text) <=> DOMAIN parsed = {"err"}

\* a negative index is answered with an error value
C15_Witness ==
    /\ Parsed
    /\ "text" \in DOMAIN Unwrap(args)
    /\ Unwrap(args).text = <<"-", "1", ".", "name">>
    /\ Unwrap(result).parsed = [err |-> "invalid digit found in string"]

-----------------------------------------------------------------------------
(* Field: ==, partial_cmp and + *)

\* Field values of every variant; the f64 ones include NaN and +inf
Fields ==
    {FieldU32(v) : v \in {0, 1}}
        \cup {FieldU64(v) : v \in {0, 1, 2}}
        \cup {FieldI32(v) : v \in {-1, 0, 1}}
        \cup {FieldI64(v) : v \in {-1, 1}}
        \cup {FieldF64(v) : v \in {F64(0), Frac(1, 2), F64(-1), NaN, Frac(1, 0)}}
        \cup {FieldStr(v) : v \in {"", "a", "b"}}
        \cup {FieldPidState(v) : v \in {"Running", "Sleeping"}}

FieldInit ==
    /\ NoSamples
    /\ NoView
    /\ \E self \in Fields, other \in Fields : args = Some(<<self, other>>)
    /\ result = None

\* self == other
CallEq ==
    /\ result = None
    /\ result' = Some([eq |-> FieldEq(Unwrap(args)[1], Unwrap(args)[2])])
    /\ UNCHANGED <<sample, last, node, model, args, state, caller_reverse>>

\* self.partial_cmp(&other)
CallPartialCmp ==
    /\ result = None
    /\ result' = Some([partial_cmp |-> FieldPartialCmp(Unwrap(args)[1], Unwrap(args)[2])])
    /\ UNCHANGED <<sample, last, node, model, args, state, caller_reverse>>

\* self + other
CallAdd ==
    /\ result = None
    /\ result' = Some([add |-> FieldAdd(Unwrap(args)[1], Unwrap(args)[2])])
    /\ UNCHANGED <<sample, last, node, model, args, state, caller_reverse>>

FieldNext == CallEq \/ CallPartialCmp \/ CallAdd

FieldSpec == FieldInit /\ [][FieldNext]_vars

\* the two arguments are of the same variant
SameVariant == Variant(Unwrap(args)[1]) = Variant(Unwrap(args)[2])

\* == of the wrapped values of two Fields of the same variant
WrappedEq(self, other) ==
    IF Variant(self) = "F64" THEN F64Eq(Wrapped(self), Wrapped(other))
    ELSE Wrapped(self) = Wrapped(other)

\* partial_cmp of the wrapped values of two Fields of the same variant
WrappedPartialCmp(self, other) ==
    CASE Variant(self) = "F64" -> F64PartialCmp(Wrapped(self), Wrapped(other))
      [] Variant(self) = "Str" ->
             Some(IntCmp(IndexIn(StrOrder, Wrapped(self)), IndexIn(StrOrder, Wrapped(other))))
      [] Variant(self) = "PidState" ->
             Some(IntCmp(IndexIn(PidStates, Wrapped(self)), IndexIn(PidStates, Wrapped(other))))
      [] OTHER -> Some(IntCmp(Wrapped(self), Wrapped(other)))

\* C16: two Fields of the same variant, whichever it is, are equal exactly
\* when the wrapped values are, and compare as the wrapped values do; two
\* Fields of different variants are unequal and incomparable.
C16_SameVariantCompared ==
    IsSome(result) =>
        LET self == Unwrap(args)[1]
            other == Unwrap(args)[2]
            r == Unwrap(result)
        IN  /\ "eq" \in DOMAIN r =>
                   r.eq = (SameVariant /\ WrappedEq(self, other))
            /\ "partial_cmp" \in DOMAIN r =>
                   r.partial_cmp = IF SameVariant THEN WrappedPartialCmp(self, other)
                                   ELSE None

\* the sum of the wrapped values of two Fields of the same variant
WrappedSum(self, other) ==
    CASE Variant(self) = "F64" -> F64Add(Wrapped(self), Wrapped(other))
      [] Variant(self) = "Str" -> Wrapped(self) \o Wrapped(other)
      [] OTHER -> Wrapped(self) + Wrapped(other)

\* C17: the sum of two Fields of the same variant among U32, U64, I32, I64,
\* F64 and Str is the Field of that variant holding the sum (the
\* concatenation for Str); every other pair panics.
C17_AddDefined ==
    (IsSome(result) /\ "add" \in DOMAIN Unwrap(result)) =>
        LET self == Unwrap(args)[1]
            other == Unwrap(args)[2]
            sum == Unwrap(result).add
        IN  IF SameVariant /\ Variant(self) # "PidState"
            THEN /\ DOMAIN sum = {Variant(self)}
                 /\ Wrapped(sum) = WrappedSum(self, other)
            ELSE DOMAIN sum = {"panic"}

-----------------------------------------------------------------------------
(* sort_queriables on slices of cgroup models *)

MaxSortLen == 3

\* cgroup models named a and b: no sub-model at all, no cpu (first sample),
\* cpu rates of 100 and 0, and the NaN count rates of a zero elapsed time
SortModels ==
    {CgroupModelNew(n, "/" \o n, 1, s, l) :
        n \in Names,
        s \in {FullCgroup(Some(5), 2, None)},
        l \in {None,
               Some(<<FullCgroup(Some(5), 1, None), 1000000>>),
               Some(<<FullCgroup(Some(5), 2, None), 1000000>>),
               Some(<<FullCgroup(Some(5), 2, None), 0>>)}}
        \cup {CgroupModelNew(n, "/" \o n, 1, EmptyCgroup, None) : n \in Names}

SortVecs == UNION {[1..n -> SortModels] : n \in 0..MaxSortLen}

SortFieldIds ==
    {<<"cpu", "usage_pct">>, <<"cpu", "nr_periods_per_sec">>, <<"inode_number">>,
     <<"name">>}

SortInit ==
    /\ NoSamples
    /\ NoView
    /\ \E v \in SortVecs, f \in SortFieldIds, reverse \in BOOLEAN :
          args = Some(<<v, f, reverse>>)
    /\ result = None

\* a call sort_queriables(&mut queriables, &field_id, reverse)
Sort ==
    /\ result = None
    /\ result' = Some(sort_queriables(Unwrap(args)[1], Unwrap(args)[2], Unwrap(args)[3]))
    /\ UNCHANGED <<sample, last, node, model, args, state, caller_reverse>>

SortNext == Sort

SortSpec == SortInit /\ [][SortNext]_vars

\* the query result the items of the call are sorted by
SortKey(item) == CgroupModelQuery(item, Unwrap(args)[2])

\* the items of seq without a value, in their order in seq
AbsentOf(seq) == SelectSeq(seq, LAMBDA item : IsNone(SortKey(item)))

\* C18 as stated: an item whose query result is None compares Equal to
\* every other item.
C18_Original ==
    IsSome(result) =>
        LET v == Unwrap(args)[1]
        IN  \A i \in 1..Len(v), j \in 1..Len(v) :
                (IsNone(SortKey(v[i])) \/ IsNone(SortKey(v[j]))) =>
                    SortCompare(v[i], v[j], Unwrap(args)[2], Unwrap(args)[3]) = "Equal"

\* C18: an item whose query result is None compares Equal to another such
\* item and Less than every item with a value (Greater with reverse); in
\* the result the items without a value keep their input order and stand
\* before all items with a value (after them with reverse).
C18_AbsentFirstInOrder ==
    IsSome(result) =>
        LET v == Unwrap(args)[1]
            reverse == Unwrap(args)[3]
            sorted == Unwrap(result)
        IN  /\ \A i \in 1..Len(v), j \in 1..Len(v) :
                   IsNone(SortKey(v[i])) =>
                       SortCompare(v[i], v[j], Unwrap(args)[2], reverse)
                           = IF IsNone(SortKey(v[j])) THEN "Equal"
                             ELSE IF reverse THEN "Greater" ELSE "Less"
            /\ AbsentOf(sorted) = AbsentOf(v)
            /\ \A i \in 1..Len(sorted), j \in 1..Len(sorted) :
                   (i < j /\ IsNone(SortKey(sorted[IF reverse THEN i ELSE j]))) =>
                       IsNone(SortKey(sorted[IF reverse THEN j ELSE i]))

\* two different items without a value behind one with a value come to
\* stand before it, in their input order
C18_Witness ==
    /\ IsSome(result)
    /\ LET v == Unwrap(args)[1]
           sorted == Unwrap(result)
       IN  /\ Len(v) = 3 /\ ~Unwrap(args)[3]
           /\ IsSome(SortKey(v[1])) /\ IsNone(SortKey(v[2])) /\ IsNone(SortKey(v[3]))
           /\ v[2] # v[3]
           /\ sorted = <<v[2], v[3], v[1]>>

\* how many times item occurs in seq
Occurrences(seq, item) == Cardinality({i \in 1..Len(seq) : seq[i] = item})

\* every item of seq has a value and any two of the values are comparable
AllComparable(seq) ==
    \A i \in 1..Len(seq), j \in 1..Len(seq) :
        /\ IsSome(SortKey(seq[i])) /\ IsSome(SortKey(seq[j]))
        /\ IsSome(FieldPartialCmp(Unwrap(SortKey(seq[i])), Unwrap(SortKey(seq[j]))))

\* the values of items a and b are equal
SameKey(a, b) == FieldPartialCmp(Unwrap(SortKey(a)), Unwrap(SortKey(b))) = Some("Equal")

\* C19: the result is a permutation of the input; when every item has a
\* value and the values are mutually comparable, it is in non-decreasing
\* order of the values (non-increasing with reverse) and items of equal
\* value keep their input order.
C19_StableSortedPermutation ==
    IsSome(result) =>
        LET v == Unwrap(args)[1]
            reverse == Unwrap(args)[3]
            sorted == Unwrap(result)
        IN  /\ Len(sorted) = Len(v)
            /\ \A i \in 1..Len(v) : Occurrences(sorted, v[i]) = Occurrences(v, v[i])
            /\ AllComparable(v) =>
                   /\ \A i \in 1..Len(sorted), j \in 1..Len(sorted) :
                          i < j =>
                              FieldPartialCmp(Unwrap(SortKey(sorted[i])),
                                              Unwrap(SortKey(sorted[j])))
                                  \in (IF reverse THEN {Some("Greater"), Some("Equal")}
                                       ELSE {Some("Less"), Some("Equal")})
                   /\ \A k \in 1..Len(v) :
                          SelectSeq(sorted, LAMBDA item : SameKey(item, v[k]))
                              = SelectSeq(v, LAMBDA item : SameKey(item, v[k]))

\* a reverse sort by cpu usage of three items, two of them of equal value
\* and in input order behind the larger one
C19_Witness ==
    /\ IsSome(result)
    /\ LET v == Unwrap(args)[1]
           sorted == Unwrap(result)
       IN  /\ Len(v) = 3 /\ Unwrap(args)[3] /\ AllComparable(v)
           /\ Unwrap(args)[2] = <<"cpu", "usage_pct">>
           /\ SortKey(v[1]) = Some(FieldF64(F64(0)))
           /\ SortKey(v[2]) = Some(FieldF64(F64(100)))
           /\ SortKey(v[3]) = Some(FieldF64(F64(0)))
           /\ v[1] # v[3]
           /\ sorted = <<v[2], v[1], v[3]>>

-----------------------------------------------------------------------------
(* ProcessModel::new: which processes, which sub-models *)

\* C20: the built map has exactly the pids of the current sample, and the
\* io, mem and cpu sub-models of a pid are Some exactly when a previous
\* sample was given and held that pid.
C20_CurrentPidsPairedSubModels ==
    IsSome(model) =>
        /\ DOMAIN Processes = DOMAIN sample.processes
        /\ \A pid \in DOMAIN Processes :
               LET m == Processes[pid]
                   paired == IsSome(last) /\ pid \in DOMAIN PrevProcesses
               IN  /\ IsSome(m.io) <=> paired
                   /\ IsSome(m.mem) <=> paired
                   /\ IsSome(m.cpu) <=> paired

\* pid 1 is new, pid 2 is in both samples, pid 3 is gone
C20_Witness ==
    /\ IsSome(model)
    /\ DOMAIN sample.processes = {1, 2}
    /\ DOMAIN PrevProcesses = {2, 3}
    /\ DOMAIN Processes = {1, 2}
    /\ Processes[1].io = None /\ Processes[1].mem = None /\ Processes[1].cpu = None
    /\ IsSome(Processes[2].io) /\ IsSome(Processes[2].mem) /\ IsSome(Processes[2].cpu)
    /\ Unwrap(Processes[2].cpu).user_pct = Some(F64(100))

-----------------------------------------------------------------------------
(* Recreation: newly observed, recreated and continuous nodes *)

\* the node has no cpu, io or io_total
NoCumulative(n) == n.cpu = None /\ n.io = None /\ n.io_total = None

\* C21 as stated: a node without a previous sample and a node whose inode
\* differs from its previous sample have no cpu, io and io_total and the
\* same recreate_flag.
C21_Original ==
    \A c \in BuiltCalls, d \in BuiltCalls :
        (IsNone(c.last) /\ InodeChanged(d)) =>
            /\ NoCumulative(c.node) /\ NoCumulative(d.node)
            /\ c.node.recreate_flag = d.node.recreate_flag

\* C21: a node without a previous sample and a node whose inode differs
\* from its previous sample both have no cpu, io and io_total, but
\* recreate_flag is false for the first and true for the second: it is set
\* exactly when a previous sample was given and its inode does not match.
C21_NewIsNotRecreated ==
    \A c \in BuiltCalls :
        /\ (IsNone(c.last) \/ InodeChanged(c)) => NoCumulative(c.node)
        /\ IsNone(c.last) => c.node.recreate_flag = FALSE
        /\ c.node.recreate_flag <=> InodeChanged(c)

\* one tree holding a newly observed child and a recreated node, both of
\* which carry cpu.stat and io.stat
C21_Witness ==
    \E c \in BuiltCalls, d \in BuiltCalls :
        /\ IsNone(c.last) /\ IsSome(c.sample.cpu_stat) /\ IsSome(c.sample.io_stat)
        /\ InodeChanged(d) /\ IsSome(d.sample.cpu_stat) /\ IsSome(d.sample.io_stat)
        /\ NoCumulative(c.node) /\ NoCumulative(d.node)
        /\ ~c.node.recreate_flag
        /\ d.node.recreate_flag

\* the calls that built the children of the node of call p
ChildCalls(p) ==
    {[node   |-> p.node.children[name],
      sample |-> Unwrap(p.sample.children)[name],
      last   |-> PrevChild(p.last, name)] : name \in DOMAIN p.node.children}

\* cpu and io are computed wherever both samples carry the statistics
Computed(c) ==
    /\ IsSome(c.node.cpu) <=>
           (IsSome(Unwrap(c.last)[1].cpu_stat) /\ IsSome(c.sample.cpu_stat))
    /\ IsSome(c.node.io) <=>
           (IsSome(Unwrap(c.last)[1].io_stat) /\ IsSome(c.sample.io_stat))
    /\ IsSome(c.node.io_total) <=> IsSome(c.node.io)

\* C22: a child is judged by its own pair of inode numbers, against its
\* same-named previous child, whatever was found for its parent: with
\* matching inodes under a recreated parent it has recreate_flag false and
\* cpu and io computed, with mismatching inodes under a continuous parent
\* it has recreate_flag true.
C22_RecreationPerNode ==
    \A p \in BuiltCalls : \A c \in ChildCalls(p) :
        /\ (InodeChanged(p) /\ InodeContinuous(c)) =>
               /\ p.node.recreate_flag
               /\ ~c.node.recreate_flag
               /\ Computed(c)
        /\ (InodeContinuous(p) /\ InodeChanged(c)) =>
               /\ ~p.node.recreate_flag
               /\ c.node.recreate_flag
               /\ NoCumulative(c.node)

\* under a recreated root, child a is continuous with a cpu usage of 100
\* percent and child b is recreated
C22_Witness ==
    \E p \in BuiltCalls : \E c \in ChildCalls(p), d \in ChildCalls(p) :
        /\ InodeChanged(p) /\ p.node.recreate_flag
        /\ InodeContinuous(c) /\ ~c.node.recreate_flag
        /\ IsSome(c.node.cpu)
        /\ Unwrap(c.node.cpu).usage_pct = Some(F64(100))
        /\ IsSome(c.node.io_total)
        /\ InodeChanged(d) /\ d.node.recreate_flag

-----------------------------------------------------------------------------
(* CoreState of the core view (view/src/core_view.rs) *)

\* BtrfsModelFieldId: the variants, in the order of the fields of BtrfsModel
BtrfsModelFieldIds == <<"Name", "DiskFraction", "DiskBytes">>

\* SingleSlabModelFieldId: the variants, in the order enum_iterator::all
\* yields them
SingleSlabModelFieldIds ==
    <<"Name", "ActiveObjs", "NumObjs", "ObjSize", "ObjPerSlab", "NumSlabs",
      "ActiveCaches", "NumCaches", "ActiveSize", "TotalSize">>

\* <BtrfsModelFieldId as ToString>::to_string: the name of the field
BtrfsModelFieldIdToString(field_id) ==
    CASE field_id = "Name"         -> <<"name">>
      [] field_id = "DiskFraction" -> <<"disk_fraction">>
      [] field_id = "DiskBytes"    -> <<"disk_bytes">>

\* <BtrfsModelFieldId as FromStr>::from_str
BtrfsModelFieldIdFromStr(s) ==
    LET ids == {BtrfsModelFieldIds[i] : i \in DOMAIN BtrfsModelFieldIds}
    IN  IF \E f \in ids : BtrfsModelFieldIdToString(f) = s
        THEN [ok |-> CHOOSE f \in ids : BtrfsModelFieldIdToString(f) = s]
        ELSE [err |-> "Unable to find a variant of the given enum matching the string."]

\* enum CoreStateFieldId: a variant and the field id it carries; the derived
\* PartialEq is the equality of both
CoreStateFieldId(variant, field) == [variant |-> variant, field |-> field]

\* CORE_BTRFS_TAB: one view item per column of the Btrfs tab
CORE_BTRFS_TAB ==
    [view_items |-> [i \in DOMAIN BtrfsModelFieldIds |->
                        [field_id |-> BtrfsModelFieldIds[i]]]]

\* CoreState::new(model); the shared SystemModel is not part of the state
\* the calls below read or write
CoreStateNew ==
    [ filter_info    |-> None,
      collapsed_disk |-> {},
      sort_order     |-> None,
      sort_tags      |-> [tab \in {"Btrfs"} |-> CORE_BTRFS_TAB],
      reverse        |-> FALSE ]

\* a call that unwound with a panic
Panicked(r) == "panic" \in DOMAIN r

\* CoreState::is_filter_supported_from_tab_idx
is_filter_supported_from_tab_idx(self, tab, idx) == idx = 0

\* CoreState::get_tag_from_tab_idx: the tag, or the panic it unwinds with
get_tag_from_tab_idx(self, tab, idx) ==
    CASE tab = "Btrfs" ->
             IF tab \notin DOMAIN self.sort_tags
             THEN [panic |-> "Fail to find tab: Btrfs"]
             ELSE LET core_tab == self.sort_tags[tab]
                  IN  IF idx + 1 \in DOMAIN core_tab.view_items
                      THEN CoreStateFieldId("Btrfs",
                                            core_tab.view_items[idx + 1].field_id)
                      ELSE [panic |-> "Out of title scope"]
      [] tab = "CPU"  -> CoreStateFieldId("Cpu", "Idx")
      [] tab = "Disk" -> CoreStateFieldId("Disk", "Name")
      [] tab = "Mem"  -> CoreStateFieldId("Mem", "Total")
      [] tab = "Vm"   -> CoreStateFieldId("Vm", "PgpginPerSec")
      [] tab = "Slab" ->
             IF idx + 1 \in DOMAIN SingleSlabModelFieldIds
             THEN CoreStateFieldId("Slab", SingleSlabModelFieldIds[idx + 1])
             ELSE [panic |-> "Tag out of range"]
      [] OTHER -> [panic |-> "bug: got unsupported tab"]

\* mutant: the filter dropped before the column is looked at
set_filter_from_tab_idx_cleared(self, tab, idx, filter) ==
    IF ~is_filter_supported_from_tab_idx(self, tab, idx)
    THEN [self |-> [self EXCEPT !.filter_info = None], ret |-> FALSE]
    ELSE IF IsSome(filter)
         THEN LET title == get_tag_from_tab_idx(self, tab, idx)
              IN  IF Panicked(title)
                  THEN [self |-> self, panic |-> title.panic]
                  ELSE [self |-> [self EXCEPT !.filter_info =
                                      Some(<<title, Unwrap(filter)>>)],
                        ret  |-> TRUE]
         ELSE [self |-> [self EXCEPT !.filter_info = None], ret |-> TRUE]

\* CoreState::set_filter_from_tab_idx: self after the call and what the call
\* returned
set_filter_from_tab_idx(self, tab, idx, filter) ==
    IF ~is_filter_supported_from_tab_idx(self, tab, idx)
    THEN [self |-> self, ret |-> FALSE]
    ELSE IF IsSome(filter)
         THEN LET title == get_tag_from_tab_idx(self, tab, idx)
              IN  IF Panicked(title)
                  THEN [self |-> self, panic |-> title.panic]
                  ELSE [self |-> [self EXCEPT !.filter_info =
                                      Some(<<title, Unwrap(filter)>>)],
                        ret  |-> TRUE]
         ELSE [self |-> [self EXCEPT !.filter_info = None], ret |-> TRUE]

\* mutant: a new tag leaves *reverse as it was
set_sort_tag_kept(self, sort_order, reverse) ==
    LET tag == Some(sort_order)
        rev == IF self.sort_order = tag THEN ~reverse ELSE reverse
    IN  [ self    |-> [self EXCEPT !.sort_order = tag, !.reverse = rev],
          reverse |-> rev,
          ret     |-> TRUE ]

\* CoreState::set_sort_tag: self and *reverse after the call and what the
\* call returned
set_sort_tag(self, sort_order, reverse) ==
    LET tag == Some(sort_order)
        rev == IF self.sort_order = tag THEN ~reverse ELSE TRUE
        set == IF self.sort_order = tag THEN self
               ELSE [self EXCEPT !.sort_order = tag]
    IN  [ self    |-> [set EXCEPT !.reverse = rev],
          reverse |-> rev,
          ret     |-> TRUE ]

\* CoreState::set_sort_tag_from_tab_idx
set_sort_tag_from_tab_idx(self, tab, idx, reverse) ==
    IF tab \in {"Btrfs", "Slab"}
    THEN LET sort_order == get_tag_from_tab_idx(self, tab, idx)
         IN  IF Panicked(sort_order)
             THEN [self |-> self, reverse |-> reverse, panic |-> sort_order.panic]
             ELSE set_sort_tag(self, sort_order, reverse)
    ELSE [self |-> self, reverse |-> reverse, ret |-> FALSE]

\* CoreState::set_sort_string
set_sort_string(self, selection, reverse) ==
    LET parsed == BtrfsModelFieldIdFromStr(selection)
    IN  IF "ok" \in DOMAIN parsed
        THEN set_sort_tag(self, CoreStateFieldId("Btrfs", parsed.ok), reverse)
        ELSE [self |-> self, reverse |-> reverse, ret |-> FALSE]

\* the largest column index a call is given: past the last variant of
\* SingleSlabModelFieldId
MaxTabIdx == 10

\* idx: the columns of the Btrfs tab, the first one past them, and the largest
TabIdxs == 0..Len(BtrfsModelFieldIds) \cup {MaxTabIdx}

\* the tabs of the core view and a name that is none of them
Tabs == {"CPU", "Mem", "Vm", "Slab", "Disk", "Btrfs", "Core"}

\* filter: Option<String>
Filters == {None, Some("sda")}

\* the tags a caller hands to set_sort_tag
CoreStateFieldIds ==
    {CoreStateFieldId("Btrfs", BtrfsModelFieldIds[i]) :
        i \in DOMAIN BtrfsModelFieldIds}
    \cup {CoreStateFieldId("Slab", SingleSlabModelFieldIds[i]) :
        i \in DOMAIN SingleSlabModelFieldIds}
    \cup {CoreStateFieldId("Cpu", "Idx"), CoreStateFieldId("Disk", "Name"),
          CoreStateFieldId("Mem", "Total"), CoreStateFieldId("Vm", "PgpginPerSec")}

\* the selections handed to set_sort_string: the three field names, the empty
\* string, a variant name, an indexed path and a field of another model
Selections ==
    {<<"name">>, <<"disk_fraction">>, <<"disk_bytes">>, <<>>, <<"Name">>,
     <<"0", ".", "name">>, <<"usage_pct">>}

\* what a call left in `result`: the value returned, or the panic
Outcome(r) == IF Panicked(r) THEN [panic |-> r.panic] ELSE [ret |-> r.ret]

\* no call has panicked: the view is alive
Alive == IF IsNone(result) THEN TRUE ELSE ~Panicked(Unwrap(result))

\* a fresh CoreState and the caller's reverse, of either value
CoreInit ==
    /\ NoSamples
    /\ args = None
    /\ result = None
    /\ state = CoreStateNew
    /\ caller_reverse \in BOOLEAN

\* a call state.set_filter_from_tab_idx(tab, idx, filter); args keeps what the
\* call was given: self and the caller's reverse as they were
SetFilterFromTabIdx ==
    /\ Alive
    /\ \E tab \in Tabs, idx \in TabIdxs, filter \in Filters :
          LET r == set_filter_from_tab_idx(state, tab, idx, filter)
          IN  /\ args' = Some([op |-> "set_filter_from_tab_idx", self |-> state,
                               reverse |-> caller_reverse,
                               tab |-> tab, idx |-> idx, filter |-> filter])
              /\ state' = r.self
              /\ result' = Some(Outcome(r))
    /\ UNCHANGED <<sample, last, node, model, caller_reverse>>

\* a call state.set_sort_tag(sort_order, &mut reverse)
SetSortTag ==
    /\ Alive
    /\ \E sort_order \in CoreStateFieldIds :
          LET r == set_sort_tag(state, sort_order, caller_reverse)
          IN  /\ args' = Some([op |-> "set_sort_tag", self |-> state,
                               reverse |-> caller_reverse,
                               sort_order |-> sort_order])
              /\ state' = r.self
              /\ caller_reverse' = r.reverse
              /\ result' = Some(Outcome(r))
    /\ UNCHANGED <<sample, last, node, model>>

\* a call state.set_sort_tag_from_tab_idx(tab, idx, &mut reverse)
SetSortTagFromTabIdx ==
    /\ Alive
    /\ \E tab \in Tabs, idx \in TabIdxs :
          LET r == set_sort_tag_from_tab_idx(state, tab, idx, caller_reverse)
          IN  /\ args' = Some([op |-> "set_sort_tag_from_tab_idx", self |-> state,
                               reverse |-> caller_reverse,
                               tab |-> tab, idx |-> idx])
              /\ state' = r.self
              /\ caller_reverse' = r.reverse
              /\ result' = Some(Outcome(r))
    /\ UNCHANGED <<sample, last, node, model>>

\* a call state.set_sort_string(selection, &mut reverse)
SetSortString ==
    /\ Alive
    /\ \E selection \in Selections :
          LET r == set_sort_string(state, selection, caller_reverse)
          IN  /\ args' = Some([op |-> "set_sort_string", self |-> state,
                               reverse |-> caller_reverse,
                               selection |-> selection])
              /\ state' = r.self
              /\ caller_reverse' = r.reverse
              /\ result' = Some(Outcome(r))
    /\ UNCHANGED <<sample, last, node, model>>

CoreNext ==
    SetFilterFromTabIdx \/ SetSortTag \/ SetSortTagFromTabIdx \/ SetSortString

CoreSpec == CoreInit /\ [][CoreNext]_vars

\* the last call was of the named operation
Called(op) == IsSome(args) /\ Unwrap(args).op = op

\* the last call returned the value
Returned(b) == IsSome(result) /\ Unwrap(result) = [ret |-> b]

\* C23: once set_sort_tag has been called, state.reverse equals the caller's
\* reverse and sort_order holds the tag of the last call; every call returns
\* true; a call with the tag sort_order already holds flips reverse and
\* leaves sort_order, and a call with another tag, or the first call, leaves
\* reverse true whatever it was.
C23_SetSortTag ==
    /\ IsSome(state.sort_order) => state.reverse = caller_reverse
    /\ IsNone(state.sort_order) => ~state.reverse
    /\ Called("set_sort_tag") =>
           LET a == Unwrap(args)
           IN  /\ Returned(TRUE)
               /\ state.sort_order = Some(a.sort_order)
               /\ state.reverse = caller_reverse
               /\ IF a.self.sort_order = Some(a.sort_order)
                  THEN /\ caller_reverse = ~a.reverse
                       /\ state.sort_order = a.self.sort_order
                  ELSE caller_reverse = TRUE

\* a second call with the same tag has flipped reverse back to false, after a
\* first call that found the caller's reverse false and set it
C23_Witness ==
    /\ Called("set_sort_tag") /\ Returned(TRUE)
    /\ Unwrap(args).self.sort_order = Some(Unwrap(args).sort_order)
    /\ Unwrap(args).reverse = TRUE
    /\ caller_reverse = FALSE /\ state.reverse = FALSE

\* the calls that return false
Refused ==
    LET a == Unwrap(args)
    IN  \/ Called("set_filter_from_tab_idx") /\ a.idx # 0
        \/ Called("set_sort_tag_from_tab_idx") /\ a.tab \notin {"Btrfs", "Slab"}
        \/ Called("set_sort_string")
               /\ "err" \in DOMAIN BtrfsModelFieldIdFromStr(a.selection)

\* C24: a call that returns false leaves the state and the caller's reverse
\* as they were, and these calls return false, none of them panicking:
\* set_filter_from_tab_idx with idx other than 0 and any tab name,
\* set_sort_tag_from_tab_idx on a tab other than Btrfs and Slab, and
\* set_sort_string with a string that is no BtrfsModelFieldId.
C24_FalseChangesNothing ==
    /\ Returned(FALSE) =>
           /\ Refused
           /\ state = Unwrap(args).self
           /\ caller_reverse = Unwrap(args).reverse
    /\ (IsSome(args) /\ Refused) => Returned(FALSE)

\* a filter and a sort order are set, and a call with column 1 of a tab the
\* view does not have, carrying a filter, has returned false
C24_Witness ==
    /\ Called("set_filter_from_tab_idx") /\ Returned(FALSE)
    /\ Unwrap(args).idx = 1 /\ Unwrap(args).tab = "Core"
    /\ IsSome(Unwrap(args).filter)
    /\ IsSome(state.filter_info) /\ IsSome(state.sort_order)
    /\ state.reverse

====
